---- MODULE Spec2Model ----
(***************************************************************************)
(* Photobooth operator application (App), its compositor worker and the    *)
(* guest window, as a state machine.                                       *)
(*                                                                         *)
(* React state (useState) and refs (useRef) of App are the variables.  An  *)
(* event handler together with the effects React runs after the commit it  *)
(* causes is one action.  Time is the value of Date.now(), advanced by     *)
(* Tick in steps of half the debounce delay.                         *)
(***************************************************************************)
EXTENDS Integers, Sequences, FiniteSets, TLC

VARIABLES
    appStep,              \* useState<AppStep>
    session,              \* useState<PhotoboothSession>
    settings,             \* useState<AppSettings> (the fields the operations read)
    analytics,            \* useState<AnalyticsData>
    guestLayoutId,        \* useState<string | null>
    guestWindow,          \* useGuestWindow().guestWindow: is a guest window open
    frameOpacity,         \* useState(1)
    globalPhotoScale,     \* useState(1)
    history,              \* useRef<PhotoboothSession[]>
    historyIndex,         \* useRef(0)
    selectedLayerType,    \* useState
    selectedLayerIndex,   \* useState(-1)
    finalCompositeImage,  \* useState<string | null>
    useWorkerCompositor,  \* useState(true)
    compositorWorkerRef,  \* useRef<Worker | null>: "unset" | "worker"
    workerPending,        \* workerPendingRef.current
    canvasSize,           \* << finalCanvasRef.current.width, .height >> (live)
    timers,               \* window.setTimeout callbacks of the request effect not yet run
    effectCleanup,        \* the timer the request effect's last cleanup clears
    toWorker,             \* COMPOSITE messages posted to the worker, not yet rendered
    fromWorker,           \* RESULT messages posted by the worker, not yet received
    toGuest,              \* channel messages on their way to the guest window
    toOperator,           \* channel messages on their way to the operator
    guestState,           \* GuestWindow useState<GuestScreenState>
    now,                  \* Date.now()
    lastGuestBroadcast,   \* lastGuestBroadcastRef.current
    interaction,          \* CanvasEditor: interaction.current (mode, anchor, snapshot)
    transient,            \* CanvasEditor: transientPhotos/Stickers/Text.current
    toParent,             \* messages the guest window posted to window.parent
    review,               \* ReviewMode useState: activeTool, isDrawing, currentPath
    keyHandler,           \* what the registered keydown listener's closure captured
    listener,             \* what the registered channel listener's closure captured
    layoutEditor,         \* SettingsPanel's localSettings and its LayoutEditorModal
    kiosk,                \* isKioskLocked, lastActivityRef, unlockAttemptPin, isSettingsOpen
    obs                   \* observation record of the run (history variables)

vars == << appStep, session, settings, analytics, guestLayoutId, guestWindow,
           frameOpacity, globalPhotoScale, history, historyIndex,
           selectedLayerType, selectedLayerIndex, finalCompositeImage,
           useWorkerCompositor, compositorWorkerRef, workerPending, canvasSize,
           timers, effectCleanup, toWorker, fromWorker, toGuest, toOperator,
           guestState, now, lastGuestBroadcast, interaction, transient, toParent, review,
           keyHandler, listener, layoutEditor, kiosk, obs >>

compositorVars == << finalCompositeImage, useWorkerCompositor, compositorWorkerRef,
                     workerPending, canvasSize, timers, effectCleanup, toWorker,
                     fromWorker >>
syncVars == << toGuest, toOperator, guestState >>
editorVars == << interaction, transient >>

-----------------------------------------------------------------------------
(* Bounds of the model *)

MaxHistory == 6      \* longest undo history explored
MaxLayers == 2       \* longest layer array explored
MaxChannel == 2      \* most messages in transit on one channel direction
MaxNow == 700        \* last clock value explored
MaxCount == 2        \* largest analytics counter explored
MaxFrames == 1       \* most uploaded frames explored
MaxForeign == 1      \* most messages of other contexts waiting at the operator
MaxPosts == 2        \* most messages published by the guest window and other contexts
MaxOpens == 1        \* most times the guest window is opened
MaxLayoutHistory == 3  \* longest history of the layout editor explored
MaxKioskNow == 3300   \* last clock value explored under the kiosk lock
MaxFiles == 2        \* largest file counter explored
MaxPrints == 2       \* most prints counted in one run
MaxEdits == 2        \* most edits of the composition in one run
MaxDowns == 3        \* most pointer-downs on the editor's canvas in one run
MaxPath == 3         \* most points of one stroke of the guest
MaxHeldDowns == 2    \* most pointer-downs in a run with key presses
MaxHeldMoves == 1    \* most pointer-moves of one gesture in a run with key presses

(* Program constants *)

DEBOUNCE_MS == 150
BROADCAST_INTERVAL_MS == 300
MAX_EMAIL_LENGTH == 200
ROTATION_HANDLE_OFFSET == 25
ROTATION_HANDLE_SIZE == 8
SCALE_HANDLE_SIZE == 8

Quantum == DEBOUNCE_MS \div 2

LayerVals == 0 .. 1             \* contents of one layer
Unit == 12 * 100                \* a normalized coordinate n stands for n / Unit
Half == Unit \div 2
FilterVals == {"", "sepia(0.8)"}
OpacityVals == {1, 2}           \* frame opacity settings (1 is the initial one)
ScaleVals == {1, 2}             \* global photo scale settings
CanvasSizes == { << 300, 150 >>, << 400, 600 >> }   \* << width, height >>

NoTimer == [deadline |-> -1]
NoImage == [ null |-> TRUE ]                  \* finalCompositeImage === null
CanvasPixels == [ canvas |-> TRUE ]           \* finalCanvasRef.current.toDataURL()
NoExport == [ undefined |-> TRUE ]            \* getImageForExport() === undefined

Min(a, b) == IF a < b THEN a ELSE b

-----------------------------------------------------------------------------
(* JavaScript values as they arrive in a channel message *)

Undef == [ t |-> "undefined" ]
Str(s) == [ t |-> "string", v |-> s ]
Num(n) == [ t |-> "number", v |-> n ]
Arr(q) == [ t |-> "array", v |-> q ]
Obj(r) == [ t |-> "object", v |-> r ]

\* typeof x === 'object' (an array is an object; undefined is not)
IsObject(x) == x.t \in {"object", "array"}
IsString(x) == x.t = "string"
\* x.k, undefined when x has no such property
Get(x, k) == IF x.t = "object" /\ k \in DOMAIN x.v THEN x.v[k] ELSE Undef
StrIs(x, s) == x.t = "string" /\ x.v = s

LongEmail == "long-address@x.io"
\* String.prototype.length of the strings the model uses
StrLength(s) == IF s = LongEmail THEN MAX_EMAIL_LENGTH + 1
                ELSE IF s = "" THEN 0 ELSE 6
\* Truthiness of a value used in a condition
Truthy(x) == CASE x.t = "undefined" -> FALSE
               [] x.t = "string" -> x.v # ""
               [] x.t = "number" -> x.v # 0
               [] OTHER -> TRUE
\* The value as it is stored in React state: a string as itself, anything else marked
Raw(x) == CASE x.t = "string" -> x.v
            [] x.t = "number" -> "#number"
            [] x.t = "undefined" -> "#undefined"
            [] OTHER -> "#object"

Point(x, y) == Obj([ x |-> Num(x), y |-> Num(y) ])
DrawingPath(id) ==
    Obj([ id |-> Str(id), points |-> Arr(<< Point(0, 0), Point(1, 1) >>),
          color |-> Str("#ff0000"), width |-> Num(1) ])

\* generateDefaultLayouts(): three of its seven layouts
DefaultLayouts ==
    << [ id |-> "1x1", placeholders |-> << 1 >> ],
       [ id |-> "landscape-2", placeholders |-> << 40, 41 >> ],
       [ id |-> "custom", placeholders |-> << >> ] >>

-----------------------------------------------------------------------------
(* React state after construction *)

EmptySession(active) ==
    [ isActive |-> active, photos |-> << >>, stickers |-> << >>,
      textLayers |-> << >>, drawings |-> << >>, filter |-> "", isPaid |-> FALSE ]

InitSettings ==
    [ frameSrc |-> "null", placeholders |-> << >>, aspectRatio |-> "2 / 3",
      layoutOptions |-> DefaultLayouts, availableFrames |-> << >>,
      hotFolderHandle |-> "null",
      \* kioskMode: false; autoResetTimer and kioskPin are not set (0 and "" here:
      \* both are read through !settings.autoResetTimer and settings.kioskPin || '')
      kioskMode |-> FALSE, autoResetTimer |-> 0, kioskPin |-> "",
      pro |-> [ enableVending |-> FALSE, pricePerPrint |-> 5, printerPool |-> << >> ] ]

InitAnalytics ==
    [ totalSessions |-> 0, totalPhotosTaken |-> 0, totalPrints |-> 0,
      emailsCollected |-> << >>, totalRevenue |-> 0 ]

InitObs ==
    [ \* the current burst of edits: is there one, did it start with nothing pending,
      \* when it started, its last edit, how many edits, how many requests posted since
      winOpen |-> FALSE, winClean |-> FALSE, winStart |-> 0, winLast |-> 0,
      winEdits |-> 0, winPosts |-> 0,
      \* an edit was made while a request was in flight and no request was posted since
      editInFlight |-> FALSE,
      \* edits of the composition made so far
      edits |-> 0,
      \* the operator's last commit, when it was the channel listener's: the class of
      \* the message, the action dispatched, the payloads passed to sendMessage
      handled |-> "none", applied |-> "none", sent |-> 0,
      \* messages published on the channel by the guest window and other contexts
      posts |-> 0, opens |-> 0,
      \* the guest window: the kind of the last message it took, the last SET_STATE
      \* payload it took
      guestGot |-> "none", lastSet |-> [ mode |-> "ATTRACT" ],
      \* throttled broadcasts: time of the last, smallest distance between two in a
      \* row, how many, and whether each had a guest layout and a guest window
      lastBroadcastAt |-> -1, gap |-> MaxNow, broadcasts |-> 0, broadcastOk |-> TRUE,
      \* CanvasEditor: the last pointer event and where it was; the kind, index and
      \* session value of the layer the last pointer-down hit; pointer-moves since
      event |-> "none", pointer |-> [ x |-> 0, y |-> 0 ], downKind |-> "none",
      downIndex |-> -1, downLayer |-> [ null |-> TRUE ], moves |-> 0, downs |-> 0,
      \* ReviewMode's drawing canvas: its last pointer event, and where the pointer
      \* went down and moved to since the last pointer-down
      pen |-> "none", stroke |-> << >>,
      \* the history: snapshots after the cursor that the last commit discarded when
      \* it recorded a new one
      cut |-> 0,
      \* the operator's last step, when it was undo or redo: which, and the session
      \* before the undo
      command |-> "none", before |-> [ null |-> TRUE ],
      \* the layout of the last save that edited the layout active on the guest screen
      editedLayout |-> "null" ]

\* SettingsPanel before a layout is edited: localSettings is the settings prop, no
\* LayoutEditorModal is mounted.  committed, command and target observe the modal: the
\* placeholders last passed to onSave, the last click (edit, undo or redo) and the
\* history entry an undo or redo moved the cursor to.
ClosedLayoutEditor ==
    [ isEditingLayout |-> FALSE, editingLayoutId |-> "null",
      localSettings |-> InitSettings, pendingPlaceholders |-> << >>,
      history |-> << >>, historyIndex |-> 0, canUndo |-> FALSE, canRedo |-> FALSE,
      debounceTimer |-> [ null |-> TRUE ],
      committed |-> [ null |-> TRUE ], command |-> "none", target |-> [ null |-> TRUE ] ]

\* useState(false), useRef(Date.now()), useState(''), useState(false), useRef(1)
InitKiosk ==
    [ isKioskLocked |-> FALSE, lastActivity |-> BROADCAST_INTERVAL_MS,
      unlockAttemptPin |-> "", isSettingsOpen |-> FALSE,
      \* fileCounter.current, and the last key the window got: a shortcut, or the
      \* click on Unlock
      fileCounter |-> 1, key |-> "none" ]

\* ReviewMode: useState('none'), useState(false), useState<{ x, y }[]>([])
InitReview == [ activeTool |-> "none", isDrawing |-> FALSE, currentPath |-> << >> ]

\* CanvasEditor: useRef({ mode: 'idle', startX: 0, startY: 0, startVal: null, startAngle: 0 })
NoSnapshot == [ null |-> TRUE ]
InitInteraction ==
    [ mode |-> "idle", startX |-> 0, startY |-> 0, startVal |-> NoSnapshot,
      startAngle |-> 0, startDist |-> 0 ]

\* The layer arrays CanvasEditor receives as props.
Layers(s) == [ photos |-> s.photos, stickers |-> s.stickers, textLayers |-> s.textLayers ]

\* constructed: did `new Worker(...)` of the mount effect succeed
Mounted(constructed) ==
    /\ appStep = "FRAME_UPLOAD"
    /\ session = EmptySession(FALSE)
    /\ settings = InitSettings
    /\ analytics = InitAnalytics
    /\ guestLayoutId = "null"
    /\ guestWindow = FALSE
    /\ frameOpacity = 1
    /\ globalPhotoScale = 1
    /\ history = << >>
    /\ historyIndex = 0
    /\ selectedLayerType = "photo"
    /\ selectedLayerIndex = -1
    /\ finalCompositeImage = NoImage
    /\ useWorkerCompositor = constructed
    /\ compositorWorkerRef = IF constructed THEN "worker" ELSE "unset"
    /\ workerPending = FALSE
    /\ canvasSize = << 300, 150 >>
    /\ timers = {}
    /\ effectCleanup = NoTimer
    /\ toWorker = << >>
    /\ fromWorker = << >>
    /\ toGuest = << >>
    /\ toOperator = << >>
    /\ guestState = [ mode |-> "ATTRACT" ]
    /\ now = BROADCAST_INTERVAL_MS
    /\ lastGuestBroadcast = 0
    /\ interaction = InitInteraction
    /\ transient = Layers(session)
    /\ toParent = << >>
    /\ review = InitReview
    /\ listener = [ session |-> session, settings |-> settings,
                    emailsCollected |-> analytics.emailsCollected ]
    /\ layoutEditor = ClosedLayoutEditor
    /\ kiosk = InitKiosk
    /\ keyHandler = [ session |-> session, settings |-> settings,
                      selectedLayerType |-> selectedLayerType,
                      finalCompositeImage |-> finalCompositeImage ]
    /\ obs = InitObs

Init == Mounted(TRUE)

\* The worker constructed, or the fallback to main-thread rendering.
InitCompositor == \E constructed \in BOOLEAN : Mounted(constructed)

-----------------------------------------------------------------------------
(* Compositor pipeline: request effect, debounce timer, worker, response *)

\* The values the request effect's closure captures (its dependency list).
CompositorDeps(s, st, opacity, scale) ==
    [ photos |-> s.photos, stickers |-> s.stickers, textLayers |-> s.textLayers,
      drawings |-> s.drawings, frameSrc |-> st.frameSrc, frameOpacity |-> opacity,
      filter |-> s.filter, globalPhotoScale |-> scale ]

CurrentDeps == CompositorDeps(session, settings, frameOpacity, globalPhotoScale)

\* d => ({ id: d.id, points: d.points, color: d.color, width: d.width })
MapDrawing(d) ==
    Obj([ id |-> Get(d, "id"), points |-> Get(d, "points"),
          color |-> Get(d, "color"), width |-> Get(d, "width") ])

\* The message the timer callback builds: the closure's values and the live canvas size.
CompositeRequest(deps, size) ==
    [ type |-> "COMPOSITE", width |-> size[1], height |-> size[2],
      photos |-> deps.photos, stickers |-> deps.stickers,
      textLayers |-> deps.textLayers,
      drawings |-> [ i \in 1 .. Len(deps.drawings) |-> MapDrawing(deps.drawings[i]) ],
      frameSrc |-> deps.frameSrc, frameOpacity |-> deps.frameOpacity,
      filter |-> deps.filter, globalPhotoScale |-> deps.globalPhotoScale ]

Outstanding == Len(toWorker) + Len(fromWorker)

\* The request effect without its test of workerPendingRef.
RequestEffectUnguarded(deps, workerOn, canvasPresent) ==
    LET cleared == timers \ {effectCleanup} IN
    IF ~workerOn \/ compositorWorkerRef = "unset" \/ ~canvasPresent
    THEN /\ timers' = cleared
         /\ effectCleanup' = NoTimer
         /\ UNCHANGED workerPending
    ELSE LET t == [ deadline |-> now + DEBOUNCE_MS, snap |-> deps ] IN
         /\ timers' = cleared \cup {t}
         /\ effectCleanup' = t
         /\ workerPending' = TRUE

\* The request effect without its cleanup: a superseded timer still fires.
RequestEffectNoCleanup(deps, workerOn, canvasPresent) ==
    IF ~workerOn \/ compositorWorkerRef = "unset" \/ ~canvasPresent \/ workerPending
    THEN /\ effectCleanup' = NoTimer
         /\ UNCHANGED << timers, workerPending >>
    ELSE LET t == [ deadline |-> now + DEBOUNCE_MS, snap |-> deps ] IN
         /\ timers' = timers \cup {t}
         /\ effectCleanup' = t
         /\ workerPending' = TRUE

\* React runs the previous run's cleanup (clearTimeout), then the effect body.
\* deps: the closure of the new render; canvasPresent: finalCanvasRef.current != null.
RequestEffect(deps, workerOn, canvasPresent) ==
    LET cleared == timers \ {effectCleanup} IN
    IF ~workerOn \/ compositorWorkerRef = "unset" \/ ~canvasPresent \/ workerPending
    THEN /\ timers' = cleared
         /\ effectCleanup' = NoTimer
         /\ UNCHANGED workerPending
    ELSE LET t == [ deadline |-> now + DEBOUNCE_MS, snap |-> deps ] IN
         /\ timers' = cleared \cup {t}
         /\ effectCleanup' = t
         /\ workerPending' = TRUE

\* The effect runs only when one of its dependencies changed identity.
RequestEffectIfChanged(changed, deps, canvasPresent) ==
    IF changed
    THEN RequestEffect(deps, useWorkerCompositor, canvasPresent)
    ELSE UNCHANGED << timers, effectCleanup, workerPending >>

-----------------------------------------------------------------------------
(* Handlers of App, as functions from the React state a handler sees to the   *)
(* state it leaves.  out: the payloads it passed to sendMessage, in order.    *)
(* touched: it replaced a layer array of the session by a new array object.   *)

CurState ==
    [ appStep |-> appStep, session |-> session, settings |-> settings,
      analytics |-> analytics, guestLayoutId |-> guestLayoutId,
      frameOpacity |-> frameOpacity, globalPhotoScale |-> globalPhotoScale,
      history |-> history, historyIndex |-> historyIndex,
      selectedLayerType |-> selectedLayerType,
      selectedLayerIndex |-> selectedLayerIndex,
      finalCompositeImage |-> finalCompositeImage,
      out |-> << >>, touched |-> FALSE, cfgTouched |-> FALSE ]

SendMessage(st, payload) == [ st EXCEPT !.out = Append(@, payload) ]

ReviewState(s, cfg) ==
    [ mode |-> "REVIEW", photos |-> s.photos, frameSrc |-> cfg.frameSrc,
      aspectRatio |-> cfg.aspectRatio, stickers |-> s.stickers,
      textLayers |-> s.textLayers, drawings |-> s.drawings, filter |-> s.filter ]

LivePreviewState(frameSrc, cfg) ==
    [ mode |-> "LIVE_PREVIEW", frameSrc |-> frameSrc,
      placeholders |-> cfg.placeholders, aspectRatio |-> cfg.aspectRatio,
      proSettings |-> cfg.pro ]

InvalidateAiImage(st) == [ st EXCEPT !.finalCompositeImage = NoImage ]

\* A push that keeps the snapshots after the cursor.
UpdateSessionKeepingFuture(st, newSession) ==
    LET newHistory == Append(st.history, newSession)
    IN  SendMessage([ st EXCEPT !.history = newHistory,
                                !.historyIndex = Len(newHistory) - 1,
                                !.session = newSession ],
                    ReviewState(newSession, st.settings))

\* updateSessionWithHistory without its sendMessage
UpdateSessionWithoutBroadcast(st, newSession) ==
    LET newHistory ==
            Append(SubSeq(st.history, 1, Min(st.historyIndex + 1, Len(st.history))),
                   newSession)
    IN  [ st EXCEPT !.history = newHistory,
                    !.historyIndex = Len(newHistory) - 1,
                    !.session = newSession ]

UpdateSessionWithHistory(st, newSession) ==
    LET newHistory ==
            Append(SubSeq(st.history, 1, Min(st.historyIndex + 1, Len(st.history))),
                   newSession)
    IN  SendMessage([ st EXCEPT !.history = newHistory,
                                !.historyIndex = Len(newHistory) - 1,
                                !.session = newSession ],
                    ReviewState(newSession, st.settings))

\* An export that knows no other source than the worker's composite.
GetImageForExportWorkerOnly(st) ==
    IF st.finalCompositeImage # NoImage THEN st.finalCompositeImage ELSE NoExport

\* The image export starts from: the worker's composite, else the canvas pixels.
GetImageForExport(st) ==
    IF st.finalCompositeImage # NoImage THEN st.finalCompositeImage
    ELSE IF st.appStep = "FINALIZE_AND_EXPORT" THEN CanvasPixels
    ELSE NoExport

HandleGenerateQRCode(st) ==
    LET image == GetImageForExport(st) IN
    IF image = NoExport THEN st
    ELSE SendMessage(st, [ mode |-> "DELIVERY", qrCodeValue |-> image,
                           frameSrc |-> st.settings.frameSrc ])

HandlePrintInternal(st) ==
    LET image == GetImageForExport(st) IN
    IF image = NoExport THEN st
    ELSE LET counted == [ st EXCEPT !.analytics.totalPrints = @ + 1 ] IN
         IF st.settings.pro.enableVending THEN HandleGenerateQRCode(counted)
         ELSE counted

HandlePrint(st) ==
    IF st.settings.pro.enableVending /\ ~st.session.isPaid
    THEN SendMessage(st, [ mode |-> "PAYMENT", proSettings |-> st.settings.pro ])
    ELSE HandlePrintInternal(st)

FindLayout(layouts, id) ==
    SelectSeq(layouts, LAMBDA l : l.id = id)

ApplyPresetLayout(st, type) ==
    IF type = "custom" THEN st
    ELSE LET found == FindLayout(st.settings.layoutOptions, type) IN
         IF found # << >>
         THEN [ st EXCEPT !.settings.placeholders = found[1].placeholders ]
         ELSE st

AllowedActionTypes ==
    { "GUEST_START", "GUEST_SELECT_LAYOUT", "GUEST_SELECT_FRAME", "GUEST_EMAIL",
      "GUEST_PRINT", "GUEST_ADD_DRAWING", "GUEST_SET_FILTER",
      "GUEST_PAYMENT_COMPLETE" }

\* The validation without its test of the layout field.
ValidateWithoutLayoutCheck(msg) ==
    IF ~Truthy(msg) \/ ~IsObject(msg) THEN FALSE
    ELSE LET p == Get(msg, "payload")
             ty == Get(p, "type")
         IN  IF StrIs(Get(msg, "type"), "GUEST_ACTION")
                /\ \/ ~Truthy(p) \/ ~IsObject(p) \/ ~IsString(ty)
                   \/ ty.v \notin AllowedActionTypes
                   \/ /\ ty.v = "GUEST_EMAIL"
                      /\ \/ ~IsString(Get(p, "email"))
                         \/ StrLength(Get(p, "email").v) > MAX_EMAIL_LENGTH
                   \/ ty.v = "GUEST_SELECT_FRAME" /\ ~IsString(Get(p, "frameSrc"))
             THEN FALSE
             ELSE \E k \in {"SET_STATE", "GET_STATE", "GUEST_ACTION"} :
                      StrIs(Get(msg, "type"), k)

ValidateInterWindowMessage(msg) ==
    IF ~Truthy(msg) \/ ~IsObject(msg) THEN FALSE
    ELSE LET p == Get(msg, "payload")
             ty == Get(p, "type")
         IN  IF StrIs(Get(msg, "type"), "GUEST_ACTION")
                /\ \/ ~Truthy(p) \/ ~IsObject(p) \/ ~IsString(ty)
                   \/ ty.v \notin AllowedActionTypes
                   \/ /\ ty.v = "GUEST_EMAIL"
                      /\ \/ ~IsString(Get(p, "email"))
                         \/ StrLength(Get(p, "email").v) > MAX_EMAIL_LENGTH
                   \/ ty.v = "GUEST_SELECT_LAYOUT" /\ ~IsString(Get(p, "layout"))
                   \/ ty.v = "GUEST_SELECT_FRAME" /\ ~IsString(Get(p, "frameSrc"))
             THEN FALSE
             ELSE \E k \in {"SET_STATE", "GET_STATE", "GUEST_ACTION"} :
                      StrIs(Get(msg, "type"), k)

\* st: the state the handler's closure sees; action: the validated payload
HandleGuestActionDispatch(st, action) ==
    LET type == Get(action, "type").v IN
    CASE type = "GUEST_START" ->
            SendMessage([ st EXCEPT !.session = EmptySession(TRUE),
                                    !.touched = TRUE,
                                    !.analytics.totalSessions = @ + 1 ],
                        [ mode |-> "CONFIG_SELECTION",
                          layoutOptions |-> st.settings.layoutOptions ])
      [] type = "GUEST_SELECT_LAYOUT" ->
            LET layout == Raw(Get(action, "layout"))
                chosen == ApplyPresetLayout([ st EXCEPT !.guestLayoutId = layout ],
                                            layout)
                compatibleFrames ==
                    SelectSeq(st.settings.availableFrames,
                              LAMBDA f : f.isVisible /\ layout \in f.supportedLayouts)
            IN  IF compatibleFrames # << >>
                THEN SendMessage(chosen, [ mode |-> "FRAME_SELECTION",
                                           availableFrames |-> compatibleFrames ])
                ELSE SendMessage([ chosen EXCEPT !.appStep = "PHOTO_UPLOAD" ],
                                 LivePreviewState(st.settings.frameSrc, st.settings))
      [] type = "GUEST_SELECT_FRAME" ->
            LET frameSrc == Raw(Get(action, "frameSrc")) IN
            SendMessage([ st EXCEPT !.settings.frameSrc = frameSrc,
                                    !.appStep = "PHOTO_UPLOAD" ],
                        LivePreviewState(frameSrc, st.settings))
      [] type = "GUEST_EMAIL" ->
            LET email == Get(action, "email") IN
            IF Truthy(email)
               /\ \A i \in 1 .. Len(st.analytics.emailsCollected) :
                      st.analytics.emailsCollected[i] # Raw(email)
            THEN [ st EXCEPT !.analytics.emailsCollected = Append(@, Raw(email)) ]
            ELSE st
      [] type = "GUEST_PRINT" -> HandlePrint(st)
      [] type = "GUEST_ADD_DRAWING" ->
            UpdateSessionWithHistory(
                [ st EXCEPT !.touched = TRUE ],
                [ st.session EXCEPT !.drawings = Append(@, Get(action, "drawing")) ])
      [] type = "GUEST_SET_FILTER" ->
            UpdateSessionWithHistory(
                st, [ st.session EXCEPT !.filter = Raw(Get(action, "filter")) ])
      [] type = "GUEST_PAYMENT_COMPLETE" ->
            HandlePrintInternal(
                [ st EXCEPT !.session.isPaid = TRUE,
                            !.analytics.totalRevenue =
                                @ + st.settings.pro.pricePerPrint ])

\* The channel listener of the operator: validation, then dispatch.
HandleGuestAction(st, msg) ==
    IF ~ValidateInterWindowMessage(msg) THEN st
    ELSE IF StrIs(Get(msg, "type"), "GUEST_ACTION")
         THEN HandleGuestActionDispatch(st, Get(msg, "payload"))
         ELSE st

-----------------------------------------------------------------------------
(* The classes of inbound messages the specification names *)

IsNumber(x) == x.t = "number"

\* a drawing path: an id, points with numeric coordinates, a colour and a width
WellFormedPath(d) ==
    /\ IsObject(d)
    /\ IsString(Get(d, "id"))
    /\ Get(d, "points").t = "array"
    /\ \A i \in 1 .. Len(Get(d, "points").v) :
           /\ IsNumber(Get(Get(d, "points").v[i], "x"))
           /\ IsNumber(Get(Get(d, "points").v[i], "y"))
    /\ IsString(Get(d, "color"))
    /\ IsNumber(Get(d, "width"))

IsGuestAction(msg) == IsObject(msg) /\ StrIs(Get(msg, "type"), "GUEST_ACTION")

\* a GUEST_ACTION whose payload is missing, is not an object, has a non-string type or
\* a type outside the allow-list, or selects a layout that is not a string
FailsValidation(msg) ==
    /\ IsGuestAction(msg)
    /\ LET p == Get(msg, "payload") IN
       \/ p.t # "object"
       \/ ~IsString(Get(p, "type"))
       \/ Get(p, "type").v \notin AllowedActionTypes
       \/ StrIs(Get(p, "type"), "GUEST_SELECT_LAYOUT") /\ ~IsString(Get(p, "layout"))

\* a GUEST_ACTION of an allowed type whose field has not the expected shape
FailsShape(msg) ==
    /\ IsGuestAction(msg)
    /\ ~FailsValidation(msg)
    /\ LET p == Get(msg, "payload") IN
       \/ /\ StrIs(Get(p, "type"), "GUEST_SELECT_FRAME")
          /\ ~IsString(Get(p, "frameSrc"))
       \/ /\ StrIs(Get(p, "type"), "GUEST_EMAIL")
          /\ \/ ~IsString(Get(p, "email"))
             \/ StrLength(Get(p, "email").v) > MAX_EMAIL_LENGTH
       \/ /\ StrIs(Get(p, "type"), "GUEST_SET_FILTER")
          /\ ~IsString(Get(p, "filter"))
       \/ /\ StrIs(Get(p, "type"), "GUEST_ADD_DRAWING")
          /\ ~WellFormedPath(Get(p, "drawing"))

MessageClass(msg) ==
    IF FailsValidation(msg) THEN "invalid"
    ELSE IF FailsShape(msg) THEN "misshapen"
    ELSE "other"

-----------------------------------------------------------------------------
(* Handlers of the operator's own controls *)

HandleFrameSelect(st, url, selectedLayoutIds) ==
    [ st EXCEPT !.settings.frameSrc = url,
                !.settings.availableFrames =
                    Append(@, [ thumbnailSrc |-> url, isVisible |-> TRUE,
                                placeholders |-> << >>,
                                supportedLayouts |->
                                    { st.settings.layoutOptions[i].id :
                                        i \in 1 .. Len(st.settings.layoutOptions) }
                                    \cap selectedLayoutIds ]),
                !.appStep = "TEMPLATE_DESIGN" ]

HandleTemplateConfirm(st, placeholders, aspectRatio) ==
    [ st EXCEPT !.settings.placeholders = placeholders,
                !.settings.availableFrames =
                    [ i \in 1 .. Len(@) |->
                        IF @[i].thumbnailSrc = st.settings.frameSrc
                        THEN [ @[i] EXCEPT !.placeholders = placeholders ]
                        ELSE @[i] ],
                !.settings.aspectRatio = aspectRatio,
                !.cfgTouched = TRUE,
                !.appStep = "PHOTO_UPLOAD" ]

\* The rectangle of a placeholder (top-left corner and size, normalized).
PlaceholderRect(placeholder) ==
    IF placeholder = 2
    THEN [ x |-> 120, y |-> 660, width |-> 960, height |-> 420 ]
    ELSE [ x |-> 120, y |-> 120, width |-> 960, height |-> 960 ]

CreatePhotoFromPlaceholder(src, placeholder) ==
    LET r == PlaceholderRect(placeholder) IN
    [ src |-> src,
      transform |-> [ x |-> r.x + r.width \div 2, y |-> r.y + r.height \div 2,
                      width |-> r.width, height |-> r.height, rotation |-> 0 ],
      crop |-> [ x |-> 0, y |-> 0, scale |-> 1 ] ]

\* photoData: the sources picked, in order; a source without a placeholder is skipped
HandlePhotosSelected(st, photoData) ==
    LET n == Min(Len(photoData), Len(st.settings.placeholders))
        newPhotoObjects ==
            [ i \in 1 .. n |->
                CreatePhotoFromPlaceholder(photoData[i], st.settings.placeholders[i]) ]
        newSession == [ EmptySession(TRUE) EXCEPT !.photos = newPhotoObjects ]
    IN  SendMessage([ st EXCEPT !.session = newSession,
                                !.touched = TRUE,
                                !.history = << newSession >>,
                                !.historyIndex = 0,
                                !.appStep = "FINALIZE_AND_EXPORT",
                                !.analytics.totalPhotosTaken = @ + n ],
                    ReviewState(newSession, st.settings))

\* { ...layer, ...updates }
Merge(layer, updates) ==
    [ k \in DOMAIN layer \cup DOMAIN updates |->
        IF k \in DOMAIN updates THEN updates[k] ELSE layer[k] ]

\* An array slot that was never assigned.
Hole == [ empty |-> TRUE ]

\* copy[index] = { ...copy[index], ...updates }, index being the position from 1:
\* position 0 is the property "-1" of the copy and no element; a position past the
\* end extends the copy, over empty slots, with an object made of the updates alone.
SetAt(q, index, updates) ==
    IF index < 1 THEN q
    ELSE IF index <= Len(q)
    THEN [ q EXCEPT ![index] = IF @ = Hole THEN updates ELSE Merge(@, updates) ]
    ELSE q \o [ i \in 1 .. index - Len(q) - 1 |-> Hole ] \o << updates >>

\* index: position in the array, from 1
OnPhotoUpdate(st, index, updates) ==
    UpdateSessionWithHistory(
        [ InvalidateAiImage(st) EXCEPT !.touched = TRUE ],
        [ st.session EXCEPT !.photos = SetAt(@, index, updates) ])

HandleSelectLayer(st, type, index) ==
    [ st EXCEPT !.selectedLayerType = type, !.selectedLayerIndex = index ]

\* x, y: 0.5 + (Math.random() - 0.5) * 0.1
HandleAddSticker(st, src, x, y) ==
    LET newSticker == [ src |-> src, x |-> x, y |-> y, width |-> Unit \div 5,
                        height |-> Unit \div 5, rotation |-> 0 ]
        newSession == [ st.session EXCEPT !.stickers = Append(@, newSticker) ]
    IN  HandleSelectLayer(
            UpdateSessionWithHistory([ InvalidateAiImage(st) EXCEPT !.touched = TRUE ],
                                     newSession),
            "sticker", Len(newSession.stickers) - 1)

HandleAddText(st) ==
    LET newText == [ text |-> "Double Click to Edit", x |-> Half, y |-> Half,
                     fontSize |-> Unit \div 20, rotation |-> 0 ]
        newSession == [ st.session EXCEPT !.textLayers = Append(@, newText) ]
    IN  HandleSelectLayer(
            UpdateSessionWithHistory([ InvalidateAiImage(st) EXCEPT !.touched = TRUE ],
                                     newSession),
            "text", Len(newSession.textLayers) - 1)

\* index: position in the array, from 1
HandleUpdateSticker(st, index, updates) ==
    UpdateSessionWithHistory(
        [ InvalidateAiImage(st) EXCEPT !.touched = TRUE ],
        [ st.session EXCEPT !.stickers = SetAt(@, index, updates) ])

\* updates carries no text here, so sanitize has nothing to strip
HandleUpdateText(st, index, updates) ==
    UpdateSessionWithHistory(
        [ InvalidateAiImage(st) EXCEPT !.touched = TRUE ],
        [ st.session EXCEPT !.textLayers = SetAt(@, index, updates) ])

\* array.filter((_, i) => i !== index), index counted from 0
RemoveAt(q, index) ==
    [ i \in 1 .. (IF index >= 0 /\ index < Len(q) THEN Len(q) - 1 ELSE Len(q)) |->
        IF index >= 0 /\ i > index THEN q[i + 1] ELSE q[i] ]

HandleDeleteLayer(st) ==
    LET inv == InvalidateAiImage(st)
        upd == IF st.selectedLayerType = "sticker"
               THEN UpdateSessionWithHistory(inv,
                        [ st.session EXCEPT !.stickers = RemoveAt(@, st.selectedLayerIndex) ])
               ELSE IF st.selectedLayerType = "text"
               THEN UpdateSessionWithHistory(inv,
                        [ st.session EXCEPT !.textLayers = RemoveAt(@, st.selectedLayerIndex) ])
               ELSE inv
    IN  [ upd EXCEPT !.selectedLayerIndex = -1 ]

\* historyIndex counts from 0; image: the finalCompositeImage undo's closure holds
Undo(st, image) ==
    IF st.historyIndex > 0
    THEN LET prevSession == st.history[st.historyIndex]
             inv == IF image # NoImage THEN InvalidateAiImage(st) ELSE st
         IN  SendMessage([ inv EXCEPT !.historyIndex = @ - 1, !.session = prevSession ],
                         ReviewState(prevSession, st.settings))
    ELSE st

Redo(st, image) ==
    IF st.historyIndex < Len(st.history) - 1
    THEN LET nextSession == st.history[st.historyIndex + 2]
             inv == IF image # NoImage THEN InvalidateAiImage(st) ELSE st
         IN  SendMessage([ inv EXCEPT !.historyIndex = @ + 1, !.session = nextSession ],
                         ReviewState(nextSession, st.settings))
    ELSE st

HandleOpacityChange(st, opacity) ==
    [ InvalidateAiImage(st) EXCEPT !.frameOpacity = opacity ]

HandleGlobalScaleChange(st, scale) ==
    [ InvalidateAiImage(st) EXCEPT !.globalPhotoScale = scale ]

\* the filter <select> of the finalize step
OnFilterChange(st, value) ==
    UpdateSessionWithHistory(st, [ st.session EXCEPT !.filter = value ])

HandleCreateNew(st) ==
    SendMessage([ st EXCEPT !.session = EmptySession(FALSE),
                            !.touched = TRUE,
                            !.selectedLayerIndex = -1,
                            !.finalCompositeImage = NoImage,
                            !.appStep = "PHOTO_UPLOAD" ],
                [ mode |-> "ATTRACT", frameSrc |-> st.settings.frameSrc ])

HandleResetApp(st) ==
    [ st EXCEPT !.appStep = "FRAME_UPLOAD",
                !.settings.frameSrc = "null",
                !.settings.hotFolderHandle = "null",
                !.settings.placeholders = << >>,
                !.settings.aspectRatio = "2 / 3",
                !.cfgTouched = TRUE,
                !.session = EmptySession(FALSE),
                !.touched = TRUE,
                !.selectedLayerIndex = -1,
                !.finalCompositeImage = NoImage ]

HandleUseHotFolder(st) ==
    IF st.settings.hotFolderHandle = "null" THEN st
    ELSE LET newSession == EmptySession(TRUE) IN
         SendMessage([ st EXCEPT !.session = newSession,
                                 !.touched = TRUE,
                                 !.history = << newSession >>,
                                 !.historyIndex = 0,
                                 !.appStep = "FINALIZE_AND_EXPORT" ],
                     [ mode |-> "TETHER_PREVIEW", frameSrc |-> st.settings.frameSrc,
                       placeholders |-> st.settings.placeholders,
                       aspectRatio |-> st.settings.aspectRatio ])

\* newPhotos: the sources of the new files, sorted by file name; existingPhotoCount:
\* session.photos.length as the callback's closure holds it
HandleNewPhotosFromHotFolder(st, existingPhotoCount, newPhotos) ==
    IF st.settings.placeholders = << >> THEN st
    ELSE LET free == Len(st.settings.placeholders) - existingPhotoCount
             n == IF free <= 0 THEN 0 ELSE Min(Len(newPhotos), free)
             newPhotoObjects ==
                 [ i \in 1 .. n |->
                     CreatePhotoFromPlaceholder(
                         newPhotos[i], st.settings.placeholders[existingPhotoCount + i]) ]
             newSessionState == [ st.session EXCEPT !.photos = @ \o newPhotoObjects ]
             newHistory ==
                 Append(SubSeq(st.history, 1, Min(st.historyIndex + 1, Len(st.history))),
                        newSessionState)
         IN  IF n > 0
             THEN SendMessage([ st EXCEPT !.session = newSessionState,
                                          !.history = newHistory,
                                          !.historyIndex = Len(newHistory) - 1,
                                          !.analytics.totalPhotosTaken = @ + n ],
                              ReviewState(newSessionState, st.settings))
             ELSE st

\* SettingsPanel.handleSaveLayoutPlaceholders: the panel's copy of the settings after
\* the edit of one layout's placeholders
HandleSaveLayoutPlaceholders(localSettings, currentGuestLayoutId, editingLayoutId, placeholders) ==
    LET updatedLayouts ==
            [ i \in 1 .. Len(localSettings.layoutOptions) |->
                IF localSettings.layoutOptions[i].id = editingLayoutId
                THEN [ localSettings.layoutOptions[i] EXCEPT !.placeholders = placeholders ]
                ELSE localSettings.layoutOptions[i] ]
    IN  [ localSettings EXCEPT
            !.layoutOptions = updatedLayouts,
            !.placeholders = IF currentGuestLayoutId \notin { "null", "" }
                                /\ currentGuestLayoutId = editingLayoutId
                             THEN placeholders ELSE @ ]

\* SettingsPanel.handleProSettingChange('enableVending', value)
HandleProSettingChange(localSettings, value) ==
    [ localSettings EXCEPT !.pro.enableVending = value ]

\* SettingsPanel.handleSave: onSettingsChange(localSettings), which is setSettings
HandleSave(st, localSettings) ==
    [ st EXCEPT !.settings = localSettings, !.cfgTouched = TRUE ]

-----------------------------------------------------------------------------
(* CanvasEditor: hit testing and the pointer gestures *)

\* Lengths are pixels of the canvas; a test against half a width is made on doubled
\* lengths.  Angles are degrees and multiples of 90, which keeps the rotation into a
\* layer's frame exact.

DevicePixelRatio == 1           \* window.devicePixelRatio || 1
IsDrawingMode == FALSE          \* App passes no isDrawingMode and no draw callbacks
OnDraw == FALSE                 \* onDrawStart / onDrawPoint / onDrawEnd are undefined

\* toAbsolute, and the same products written inline for stickers and text
AbsX(n, size) == (n * size[1]) \div Unit
AbsY(n, size) == (n * size[2]) \div Unit

Cos(deg) == CASE deg % 360 = 0 -> 1 [] deg % 360 = 180 -> -1 [] OTHER -> 0
Sin(deg) == CASE deg % 360 = 90 -> 1 [] deg % 360 = 270 -> -1 [] OTHER -> 0

\* the pointer in the layer's frame, doubled
LocalX2(mouse, cx, cy, deg) == 2 * ((mouse.x - cx) * Cos(deg) + (mouse.y - cy) * Sin(deg))
LocalY2(mouse, cx, cy, deg) == 2 * ((mouse.y - cy) * Cos(deg) - (mouse.x - cx) * Sin(deg))

Sq(n) == n * n
Abs(n) == IF n < 0 THEN -n ELSE n

\* ctx.measureText(text).width for a font of fontSize pixels
MeasureText(text, fontSize) == 4 * fontSize

\* Math.hypot(lx, ly - handleY) < ROTATION_HANDLE_SIZE * dpr * 1.5, on doubled lengths
OnRotateHandle(lx2, ly2, h, gap) ==
    Sq(lx2) + Sq(ly2 + h + 2 * gap + 2 * ROTATION_HANDLE_OFFSET * DevicePixelRatio)
        < Sq(3 * ROTATION_HANDLE_SIZE * DevicePixelRatio)

\* Math.hypot(lx - w / 2 - gap, ly - h / 2 - gap) < SCALE_HANDLE_SIZE * dpr * 2
OnScaleHandle(lx2, ly2, w, h, gap) ==
    Sq(lx2 - w - 2 * gap) + Sq(ly2 - h - 2 * gap)
        < Sq(4 * SCALE_HANDLE_SIZE * DevicePixelRatio)

\* Math.abs(lx) < w / 2 && Math.abs(ly) < h / 2
OnBody(lx2, ly2, w, h) == Abs(lx2) < w /\ Abs(ly2) < h

\* One iteration of getHit's loop over the text layers: what it returns, or "none".
TextHit(t, mouse, selected, size) ==
    LET cx == AbsX(t.x, size)
        cy == AbsY(t.y, size)
        fontSize == AbsY(t.fontSize, size)
        w == MeasureText(t.text, fontSize) + 10
        h == fontSize + 10
        lx2 == LocalX2(mouse, cx, cy, t.rotation)
        ly2 == LocalY2(mouse, cx, cy, t.rotation)
    IN  IF selected /\ OnRotateHandle(lx2, ly2, h, 0) THEN "rotate"
        ELSE IF selected /\ OnScaleHandle(lx2, ly2, w, h, 0) THEN "scale"
        ELSE IF OnBody(lx2, ly2, w, h) THEN "move"
        ELSE "none"

StickerHit(s, mouse, selected, size) ==
    LET cx == AbsX(s.x, size)
        cy == AbsY(s.y, size)
        w == AbsX(s.width, size)
        h == AbsY(s.height, size)
        lx2 == LocalX2(mouse, cx, cy, s.rotation)
        ly2 == LocalY2(mouse, cx, cy, s.rotation)
    IN  IF selected /\ OnRotateHandle(lx2, ly2, h, 5) THEN "rotate"
        ELSE IF selected /\ OnScaleHandle(lx2, ly2, w, h, 5) THEN "scale"
        ELSE IF OnBody(lx2, ly2, w, h) THEN "move"
        ELSE "none"

PhotoHit(photo, mouse, selected, size, scale) ==
    LET x == AbsX(photo.transform.x, size)
        y == AbsY(photo.transform.y, size)
        width == AbsX(photo.transform.width, size) * scale
        height == AbsY(photo.transform.height, size) * scale
        lx2 == LocalX2(mouse, x, y, photo.transform.rotation)
        ly2 == LocalY2(mouse, x, y, photo.transform.rotation)
    IN  IF selected /\ OnRotateHandle(lx2, ly2, height, 0) THEN "rotate"
        ELSE IF OnBody(lx2, ly2, width, height) THEN "move"
        ELSE "none"

KindArray(tr, layerType) ==
    CASE layerType = "text" -> tr.textLayers
      [] layerType = "sticker" -> tr.stickers
      [] layerType = "photo" -> tr.photos

\* A loop iteration that tests the handles of every layer, selected or not.
LayerHitAnyHandles(layerType, tr, i, mouse, selType, selIndex, size, scale) ==
    CASE layerType = "text" -> TextHit(tr.textLayers[i], mouse, TRUE, size)
      [] layerType = "sticker" -> StickerHit(tr.stickers[i], mouse, TRUE, size)
      [] layerType = "photo" -> PhotoHit(tr.photos[i], mouse, TRUE, size, scale)

\* What the iteration for the layer at position i (from 1) of one kind returns.
\* Has the layer the fields its hit-test computes with (a missing one makes every
\* comparison of the test one with NaN, which is false).
Measurable(layer, layerType) ==
    CASE layerType = "text" -> { "x", "y", "fontSize", "rotation" } \subseteq DOMAIN layer
      [] layerType = "sticker" ->
            { "x", "y", "width", "height", "rotation" } \subseteq DOMAIN layer
      [] layerType = "photo" -> "transform" \in DOMAIN layer

\* One iteration of a loop of getHit; "throws" when the slot is empty (t.x of undefined).
LayerHit(layerType, tr, i, mouse, selType, selIndex, size, scale) ==
    LET selected == selType = layerType /\ selIndex = i - 1
        layer == KindArray(tr, layerType)[i]
    IN  IF layer = Hole THEN "throws"
        ELSE IF ~Measurable(layer, layerType) THEN "none"
        ELSE CASE layerType = "text" -> TextHit(layer, mouse, selected, size)
               [] layerType = "sticker" -> StickerHit(layer, mouse, selected, size)
               [] layerType = "photo" -> PhotoHit(layer, mouse, selected, size, scale)

NoHit == [ type |-> "none", layerType |-> "photo", index |-> -1 ]

\* getHit's three loops: text, stickers, photos, each from the last layer down.
RECURSIVE Scan(_, _, _, _, _, _, _, _)
Scan(kinds, tr, i, mouse, selType, selIndex, size, scale) ==
    IF kinds = << >> THEN NoHit
    ELSE IF i < 1
    THEN IF Len(kinds) = 1 THEN NoHit
         ELSE Scan(Tail(kinds), tr, Len(KindArray(tr, kinds[2])), mouse, selType,
                   selIndex, size, scale)
    ELSE LET hit == LayerHit(kinds[1], tr, i, mouse, selType, selIndex, size, scale) IN
         IF hit # "none"
         THEN [ type |-> hit, layerType |-> kinds[1], index |-> i - 1 ]
         ELSE Scan(kinds, tr, i - 1, mouse, selType, selIndex, size, scale)

GetHit(mouse, tr, selType, selIndex, size, scale) ==
    IF IsDrawingMode THEN NoHit
    ELSE Scan(<< "text", "sticker", "photo" >>, tr, Len(tr.textLayers), mouse, selType,
              selIndex, size, scale)

\* The largest r in lo .. hi with r * r <= n.
RECURSIVE RootBetween(_, _, _)
RootBetween(n, lo, hi) ==
    IF lo >= hi THEN lo
    ELSE LET mid == (lo + hi + 1) \div 2 IN
         IF mid * mid <= n THEN RootBetween(n, mid, hi) ELSE RootBetween(n, lo, mid - 1)

\* Math.hypot(dx, dy), in tenths of a pixel
Hypot(dx, dy) == RootBetween(100 * (Sq(dx) + Sq(dy)), 0, 10 * (Abs(dx) + Abs(dy)))

\* Math.atan2(dy, dx) in degrees, to the nearest quarter turn (y grows downwards)
Atan2Deg(dy, dx) ==
    IF Abs(dx) >= Abs(dy) THEN (IF dx >= 0 THEN 0 ELSE 180)
    ELSE IF dy > 0 THEN 90 ELSE -90

\* cx, cy of a snapshot: toAbsolute(transform) of a photo, x * width and y * height of
\* a sticker or text
Centre(layer, layerType, size) ==
    IF layerType = "photo"
    THEN [ x |-> AbsX(layer.transform.x, size), y |-> AbsY(layer.transform.y, size) ]
    ELSE [ x |-> AbsX(layer.x, size), y |-> AbsY(layer.y, size) ]

\* handleStart: st is App's state, ia is interaction.current, tr the transient copies.
\* The result is the state after onSelectLayer and the new interaction.current.
HandleStart(st, ia, tr, mouse, size) ==
    IF IsDrawingMode /\ OnDraw
    THEN [ st |-> st, ia |-> [ ia EXCEPT !.mode = "drawing" ] ]
    ELSE
    LET hit == GetHit(mouse, tr, st.selectedLayerType, st.selectedLayerIndex, size,
                      st.globalPhotoScale)
        anchored == [ ia EXCEPT !.startX = mouse.x, !.startY = mouse.y ]
    IN  IF hit.type = "throws" THEN [ st |-> st, ia |-> ia ]
        ELSE IF hit.type # "none"
        THEN LET startObject == KindArray(tr, hit.layerType)[hit.index + 1]
                 c == Centre(startObject, hit.layerType, size)
                 currentRot == IF hit.layerType = "photo"
                               THEN startObject.transform.rotation
                               ELSE startObject.rotation
                 held == [ anchored EXCEPT !.startVal = startObject ]
             IN  [ st |-> HandleSelectLayer(st, hit.layerType, hit.index),
                   ia |-> CASE hit.type = "rotate" ->
                                   [ held EXCEPT
                                       !.mode = "rotating",
                                       !.startAngle = Atan2Deg(mouse.y - c.y, mouse.x - c.x)
                                                          - currentRot ]
                            [] hit.type = "scale" ->
                                   [ held EXCEPT
                                       !.mode = "scaling_layer",
                                       !.startDist = Hypot(mouse.x - c.x, mouse.y - c.y) ]
                            [] hit.type = "move" ->
                                   [ held EXCEPT
                                       !.mode = IF hit.layerType = "photo"
                                                THEN "crop_panning" ELSE "moving_layer" ] ]
        ELSE [ st |-> IF ~IsDrawingMode THEN HandleSelectLayer(st, "photo", -1) ELSE st,
               ia |-> [ anchored EXCEPT !.mode = "idle" ] ]

\* n * (a / b) in normalized units, for a, b lengths in pixels
Times(n, a, b) == (n * a) \div b
\* A Math.max that lets the scaled size through whatever the floor.
MaxUnfloored(a, b) == b

Max(a, b) == IF a > b THEN a ELSE b
MinSize == Unit \div 50          \* Math.max(0.02, ...)

\* handleMove outside drawing mode: the state after the update callback it calls.
\* selectedLayerType and selectedLayerIndex are the props of the last render.
HandleMove(st, ia, tr, mouse, size) ==
    LET start == ia.startVal
        type == st.selectedLayerType
        index == st.selectedLayerIndex + 1
    IN
    \* start.crop.x of a snapshot without crop, and .transform of a missing transient
    \* photo, throw before the update callback is called
    CASE ia.mode = "crop_panning" /\ "crop" \notin DOMAIN start -> st
      [] ia.mode = "rotating" /\ type = "photo" /\ index \notin DOMAIN tr.photos -> st
      [] ia.mode = "crop_panning" ->
            LET deg == start.transform.rotation
                dx == mouse.x - ia.startX
                dy == mouse.y - ia.startY
                localDx == dx * Cos(deg) + dy * Sin(deg)
                localDy == dy * Cos(deg) - dx * Sin(deg)
                zoom == st.globalPhotoScale * start.crop.scale
            IN  OnPhotoUpdate(st, index,
                    [ crop |-> Merge(start.crop,
                                     [ x |-> start.crop.x - localDx \div zoom,
                                       y |-> start.crop.y - localDy \div zoom ]) ])
      [] ia.mode = "rotating" ->
            LET c == Centre(start, type, size)
                deg == Atan2Deg(mouse.y - c.y, mouse.x - c.x) - ia.startAngle
            IN  CASE type = "photo" ->
                        OnPhotoUpdate(st, index,
                            [ transform |-> Merge(tr.photos[index].transform,
                                                  [ rotation |-> deg ]) ])
                  [] type = "sticker" -> HandleUpdateSticker(st, index, [ rotation |-> deg ])
                  [] OTHER -> HandleUpdateText(st, index, [ rotation |-> deg ])
      [] ia.mode = "moving_layer" ->
            LET dx == ((mouse.x - ia.startX) * Unit) \div size[1]
                dy == ((mouse.y - ia.startY) * Unit) \div size[2]
                to == [ x |-> start.x + dx, y |-> start.y + dy ]
            IN  CASE type = "sticker" -> HandleUpdateSticker(st, index, to)
                  [] type = "text" -> HandleUpdateText(st, index, to)
                  [] OTHER -> st
      [] ia.mode = "scaling_layer" ->
            LET c == Centre(start, "sticker", size)
                currentDist == Hypot(mouse.x - c.x, mouse.y - c.y)
                startDist == IF ia.startDist = 0 THEN 10 ELSE ia.startDist
            IN  CASE type = "sticker" ->
                        LET newW == Max(MinSize, Times(start.width, currentDist, startDist))
                        IN  HandleUpdateSticker(st, index,
                                [ width |-> newW,
                                  height |-> Times(newW, start.height, start.width) ])
                  [] type = "text" ->
                        HandleUpdateText(st, index,
                            [ fontSize |-> Max(MinSize, Times(start.fontSize, currentDist,
                                                              startDist)) ])
                  [] OTHER -> st
      [] OTHER -> st

\* A handleEnd that leaves the gesture in progress.
HandleEndKeepsMode(ia) == ia

\* handleEnd
HandleEnd(ia) == [ ia EXCEPT !.mode = "idle" ]

-----------------------------------------------------------------------------
(* Effects React runs after the commit *)

FALSY == { "null", "" }

\* The broadcast effect without its test of the time since the last broadcast.
UnthrottledBroadcastEffect(new, gw) ==
    LET changed == \/ new.cfgTouched
                   \/ new.settings.placeholders # settings.placeholders
                   \/ new.guestLayoutId # guestLayoutId
                   \/ gw # guestWindow
                   \/ new.settings.frameSrc # settings.frameSrc
                   \/ new.settings.aspectRatio # settings.aspectRatio
                   \/ new.settings.pro # settings.pro
                   \/ new.settings.layoutOptions # settings.layoutOptions
        none == [ stamp |-> FALSE, msgs |-> << >> ]
    IN  IF ~changed THEN none
        ELSE IF ~gw \/ new.guestLayoutId \in FALSY THEN none
        ELSE IF FindLayout(new.settings.layoutOptions, new.guestLayoutId) = << >>
             THEN [ stamp |-> TRUE, msgs |-> << >> ]
             ELSE [ stamp |-> TRUE,
                    msgs |-> << LivePreviewState(new.settings.frameSrc, new.settings) >> ]

\* The throttled broadcast effect, for the state `new` with guest window `gw`:
\* whether it stamps lastGuestBroadcastRef, and what it sends.
ThrottledBroadcastEffect(new, gw) ==
    LET changed == \/ new.cfgTouched
                   \/ new.settings.placeholders # settings.placeholders
                   \/ new.guestLayoutId # guestLayoutId
                   \/ gw # guestWindow
                   \/ new.settings.frameSrc # settings.frameSrc
                   \/ new.settings.aspectRatio # settings.aspectRatio
                   \/ new.settings.pro # settings.pro
                   \/ new.settings.layoutOptions # settings.layoutOptions
        none == [ stamp |-> FALSE, msgs |-> << >> ]
    IN  IF ~changed THEN none
        ELSE IF ~gw \/ new.guestLayoutId \in FALSY THEN none
        ELSE IF now - lastGuestBroadcast < BROADCAST_INTERVAL_MS THEN none
        ELSE IF FindLayout(new.settings.layoutOptions, new.guestLayoutId) = << >>
             THEN [ stamp |-> TRUE, msgs |-> << >> ]
             ELSE [ stamp |-> TRUE,
                    msgs |-> << LivePreviewState(new.settings.frameSrc, new.settings) >> ]

SetState(payload) == Obj([ type |-> Str("SET_STATE"), payload |-> payload ])

\* useGuestWindow().sendMessage: SET_STATE to the guest window, when one is open
Deliver(gw, channel, payloads) ==
    IF gw THEN channel \o [ i \in 1 .. Len(payloads) |-> SetState(payloads[i]) ]
    ELSE channel

WithinBounds(new) ==
    /\ Len(new.history) <= MaxHistory
    /\ Len(new.session.photos) <= MaxLayers
    /\ Len(new.session.stickers) <= MaxLayers
    /\ Len(new.session.textLayers) <= MaxLayers
    /\ Len(new.session.drawings) <= MaxLayers
    /\ Len(new.analytics.emailsCollected) <= MaxLayers
    /\ Len(new.settings.availableFrames) <= MaxFrames
    /\ new.analytics.totalSessions <= MaxCount
    /\ new.analytics.totalPhotosTaken <= MaxCount
    /\ new.analytics.totalPrints <= MaxCount
    /\ new.analytics.totalRevenue <= MaxCount * new.settings.pro.pricePerPrint

\* Observation of a commit: the burst of edits it belongs to.
ObsCommit(o, reran, canvasPresent) ==
    IF ~reran THEN o
    ELSE IF ~canvasPresent THEN [ o EXCEPT !.winOpen = FALSE ]
    ELSE LET join == o.winOpen /\ now - o.winStart < DEBOUNCE_MS IN
         [ o EXCEPT !.winOpen = TRUE,
                    !.winStart = IF join THEN @ ELSE now,
                    !.winClean = IF join THEN @
                                 ELSE /\ ~workerPending /\ Outstanding = 0
                                      /\ timers = {} /\ useWorkerCompositor
                                      /\ compositorWorkerRef = "worker",
                    !.winLast = now,
                    !.winEdits = IF join THEN Min(@ + 1, 3) ELSE 1,
                    !.winPosts = IF join THEN @ ELSE 0,
                    !.editInFlight = @ \/ Outstanding > 0 ]

\* Observation of the history: a commit that recorded a snapshot one past the cursor.
ObsHistory(o, new) ==
    [ o EXCEPT !.cut = IF new.history # history /\ new.historyIndex = historyIndex + 1
                       THEN Len(history) - 1 - historyIndex ELSE 0 ]

\* Observation of a broadcast by the throttled effect: the time since the previous one.
ObsThrottle(o, sent, allowed) ==
    IF ~sent THEN o
    ELSE [ o EXCEPT !.lastBroadcastAt = now,
                    !.gap = IF o.lastBroadcastAt < 0 THEN @
                            ELSE Min(@, now - o.lastBroadcastAt),
                    !.broadcasts = Min(@ + 1, 2),
                    !.broadcastOk = @ /\ allowed ]

\* The values a handler created in the render of state st closes over.
Closure(st) ==
    [ session |-> st.session, settings |-> st.settings,
      selectedLayerType |-> st.selectedLayerType,
      finalCompositeImage |-> st.finalCompositeImage ]

\* The keyboard effect registers a new listener when appStep, isKioskLocked, a panel's
\* visibility or selectedLayerIndex changed; a save closes the settings panel.
KeyboardEffect(new) ==
    IF new.appStep # appStep \/ new.selectedLayerIndex # selectedLayerIndex
    THEN Closure(new)
    ELSE IF new.cfgTouched THEN Closure(new)
    ELSE keyHandler

\* What handleGuestActionDispatch, as the channel listener holds it, closes over.
ListenerClosure(st) ==
    [ session |-> st.session, settings |-> st.settings,
      emailsCollected |-> st.analytics.emailsCollected ]

\* The channel effect closes the channel and subscribes a new listener when the
\* session, settings.placeholders or settings.layoutOptions changed.
ListenerEffect(new) ==
    IF \/ new.touched
       \/ new.session # listener.session
       \/ new.settings.placeholders # listener.settings.placeholders
       \/ new.settings.layoutOptions # listener.settings.layoutOptions
    THEN ListenerClosure(new)
    ELSE listener

\* A render of the handler's result `new` and the effects whose dependencies
\* changed, the channel effect apart.
Rendered(new, gw, o) ==
    LET deps == CompositorDeps(new.session, new.settings, new.frameOpacity,
                               new.globalPhotoScale)
        reran == new.touched \/ deps # CurrentDeps
        canvasPresent == new.appStep = "FINALIZE_AND_EXPORT"
        throttle == ThrottledBroadcastEffect(new, gw)
        channel == Deliver(gw, toGuest, new.out \o throttle.msgs)
    IN  /\ WithinBounds(new)
        /\ Len(channel) <= MaxChannel
        /\ appStep' = new.appStep
        /\ session' = new.session
        /\ settings' = new.settings
        /\ analytics' = new.analytics
        /\ guestLayoutId' = new.guestLayoutId
        /\ guestWindow' = gw
        /\ frameOpacity' = new.frameOpacity
        /\ globalPhotoScale' = new.globalPhotoScale
        /\ history' = new.history
        /\ historyIndex' = new.historyIndex
        /\ selectedLayerType' = new.selectedLayerType
        /\ selectedLayerIndex' = new.selectedLayerIndex
        /\ finalCompositeImage' = new.finalCompositeImage
        /\ keyHandler' = KeyboardEffect(new)
        /\ RequestEffectIfChanged(reran, deps, canvasPresent)
        /\ toGuest' = channel
        /\ lastGuestBroadcast' = IF throttle.stamp THEN now ELSE lastGuestBroadcast
        /\ obs' = ObsThrottle(ObsCommit(ObsHistory(o, new), reran, canvasPresent),
                              throttle.msgs # << >>,
                              gw /\ new.guestLayoutId \notin FALSY)
        /\ UNCHANGED << useWorkerCompositor, compositorWorkerRef, canvasSize,
                        toWorker, fromWorker, now, layoutEditor >>

\* Commit of the handler's result `new`, then the effects whose dependencies changed.
Commit(new, gw, o) ==
    /\ Rendered(new, gw, o)
    /\ listener' = ListenerEffect(new)
    /\ UNCHANGED kiosk

-----------------------------------------------------------------------------
(* Operator actions *)

FrameUrls == { "frameA" }
TemplateChoices == { << 1, 2 >> }
PlaceholderChoices == { << 1 >>, << 1, 2 >> }
PhotoChoices == { << "p1", "p2" >> }
HotFolderFiles == { << "h1" >>, << "h1", "h2" >> }
StickerSrcs == { "sticker1" }
StickerSpots == { << Half, Half >> }
EditableLayouts == { "1x1", "landscape-2" }

\* CanvasEditor's effects after a render: outside a gesture the transient copies take
\* the arrays of the props.
SyncTransient ==
    transient' = IF interaction'.mode = "idle" THEN Layers(session') ELSE transient

\* A commit that is not CanvasEditor's own: the editor re-renders with the new props.
\* ReviewMode keeps its state while the guest window shows the review screen and is
\* mounted anew, with its initial state, when the window comes back to it.
ReviewKept ==
    review' = IF /\ guestWindow'
                 /\ "mode" \in DOMAIN guestState'
                 /\ guestState'.mode = "REVIEW"
              THEN review ELSE InitReview

EditorIdle == UNCHANGED << interaction, toParent >> /\ SyncTransient /\ ReviewKept

Idle == UNCHANGED << toOperator, guestState >> /\ EditorIdle

\* One more edit of the composition, while the run has edits left.
EditsLeft == obs.edits < MaxEdits
\* The observation once a step that is neither undo nor redo was taken.
Uncommanded == [ obs EXCEPT !.command = "none", !.before = [ null |-> TRUE ] ]

Forget == [ obs EXCEPT !.handled = "none", !.applied = "none", !.sent = 0,
                       !.event = "none", !.command = "none",
                       !.before = [ null |-> TRUE ] ]
Edit == [ Forget EXCEPT !.edits = @ + 1 ]

FrameSelected ==
    /\ appStep = "FRAME_UPLOAD"
    /\ \E url \in FrameUrls, ids \in { {}, {"1x1"} } :
           Commit(HandleFrameSelect(CurState, url, ids), guestWindow, Forget)
    /\ Idle

TemplateConfirmed ==
    /\ appStep = "TEMPLATE_DESIGN"
    /\ \E placeholders \in TemplateChoices :
           Commit(HandleTemplateConfirm(CurState, placeholders, "2 / 3"),
                  guestWindow, Forget)
    /\ Idle

PhotosSelected ==
    /\ appStep = "PHOTO_UPLOAD"
    /\ \E photoData \in PhotoChoices :
           Commit(HandlePhotosSelected(CurState, photoData), guestWindow, Forget)
    /\ Idle

PhotoUpdated ==
    /\ appStep = "FINALIZE_AND_EXPORT"
    /\ EditsLeft
    /\ \E index \in 1 .. Len(session.photos), v \in LayerVals :
           Commit(OnPhotoUpdate(CurState, index,
                                [ crop |-> [ x |-> v, y |-> 0, scale |-> 1 ] ]),
                  guestWindow, Edit)
    /\ Idle

StickerAdded ==
    /\ appStep = "FINALIZE_AND_EXPORT"
    /\ EditsLeft
    /\ \E src \in StickerSrcs, spot \in StickerSpots :
           Commit(HandleAddSticker(CurState, src, spot[1], spot[2]), guestWindow, Edit)
    /\ Idle

OpacityChanged ==
    /\ appStep = "FINALIZE_AND_EXPORT"
    /\ EditsLeft
    /\ \E opacity \in OpacityVals :
           Commit(HandleOpacityChange(CurState, opacity), guestWindow, Edit)
    /\ Idle

GlobalScaleChanged ==
    /\ appStep = "FINALIZE_AND_EXPORT"
    /\ EditsLeft
    /\ \E scale \in ScaleVals :
           Commit(HandleGlobalScaleChange(CurState, scale), guestWindow, Edit)
    /\ Idle

FilterChanged ==
    /\ appStep = "FINALIZE_AND_EXPORT"
    /\ EditsLeft
    /\ \E value \in FilterVals :
           Commit(OnFilterChange(CurState, value), guestWindow, Edit)
    /\ Idle

TextAdded ==
    /\ appStep = "FINALIZE_AND_EXPORT"
    /\ EditsLeft
    /\ Commit(HandleAddText(CurState), guestWindow, Edit)
    /\ Idle

CreateNewClicked ==
    /\ appStep = "FINALIZE_AND_EXPORT"
    /\ EditsLeft
    /\ Commit(HandleCreateNew(CurState), guestWindow, Edit)
    /\ Idle

ResetClicked ==
    /\ appStep = "FINALIZE_AND_EXPORT"
    /\ EditsLeft
    /\ Commit(HandleResetApp(CurState), guestWindow, Edit)
    /\ Idle

\* SettingsPanel: a folder picked with showDirectoryPicker, then Save Changes
HotFolderPicked ==
    /\ settings.hotFolderHandle = "null"
    /\ Commit(HandleSave(CurState, [ settings EXCEPT !.hotFolderHandle = "handle" ]),
              guestWindow, Forget)
    /\ Idle

HotFolderUsed ==
    /\ appStep = "PHOTO_UPLOAD"
    /\ Commit(HandleUseHotFolder(CurState), guestWindow, Forget)
    /\ Idle

\* The hot-folder watcher delivers the files that appeared: the callback started when
\* the session had as many photos as it has now or as a snapshot of the history has
HotFolderImported ==
    /\ appStep = "FINALIZE_AND_EXPORT"
    /\ settings.hotFolderHandle # "null"
    /\ EditsLeft
    /\ \E newPhotos \in HotFolderFiles,
          existingPhotoCount \in { Len(session.photos) }
                                 \cup { Len(history[i].photos) : i \in DOMAIN history } :
       \E new \in { HandleNewPhotosFromHotFolder(CurState, existingPhotoCount,
                                                  newPhotos) } :
           Commit(new, guestWindow, Edit)
    /\ Idle

SettingsSaved ==
    /\ EditsLeft
    /\ \E id \in EditableLayouts, placeholders \in PlaceholderChoices :
           Commit(HandleSave(CurState,
                             HandleSaveLayoutPlaceholders(settings, guestLayoutId, id,
                                                          placeholders)),
                  guestWindow,
                  [ Edit EXCEPT !.editedLayout =
                                    IF guestWindow /\ id = guestLayoutId THEN id ELSE @ ])
    /\ Idle

VendingSaved ==
    /\ EditsLeft
    /\ Commit(HandleSave(CurState,
                         HandleProSettingChange(settings, ~settings.pro.enableVending)),
              guestWindow, Edit)
    /\ Idle

\* The operator's "QR code" button: handleGenerateQRCode
QrCodeClicked ==
    /\ appStep = "FINALIZE_AND_EXPORT"
    /\ guestWindow
    /\ Commit(HandleGenerateQRCode(CurState), guestWindow, Forget)
    /\ Idle

\* The operator's "Print" button: handlePrint of the current render
PrintClicked ==
    /\ appStep = "FINALIZE_AND_EXPORT"
    /\ analytics.totalPrints < MaxPrints
    /\ Commit(HandlePrint(CurState), guestWindow, Forget)
    /\ Idle

\* A handler that called no state setter: no render follows, nothing but the
\* observation changes.
Unrendered(o) ==
    /\ obs' = o
    /\ UNCHANGED << appStep, session, settings, analytics, guestLayoutId, guestWindow,
                    frameOpacity, globalPhotoScale, history, historyIndex,
                    selectedLayerType, selectedLayerIndex, finalCompositeImage,
                    useWorkerCompositor, compositorWorkerRef, workerPending, canvasSize,
                    timers, effectCleanup, toWorker, fromWorker, toGuest, toOperator,
                    guestState, now, lastGuestBroadcast, interaction, transient,
                    toParent, review, keyHandler, listener, layoutEditor, kiosk >>

\* Ctrl+Z, or the undo button: undo's closure is as old as the listener's or newer
UndoPressed ==
    /\ appStep = "FINALIZE_AND_EXPORT"
    /\ \E image \in { keyHandler.finalCompositeImage, finalCompositeImage } :
       \E new \in { Undo(CurState, image) },
          o \in { [ Forget EXCEPT !.command = "undo", !.before = session ] } :
           IF new.historyIndex = historyIndex THEN Unrendered(o)
           ELSE Commit(new, guestWindow, o) /\ Idle

RedoPressed ==
    /\ appStep = "FINALIZE_AND_EXPORT"
    /\ \E image \in { keyHandler.finalCompositeImage, finalCompositeImage } :
       \E new \in { Redo(CurState, image) },
          o \in { [ Forget EXCEPT !.command = "redo" ] } :
           IF new.historyIndex = historyIndex THEN Unrendered(o)
           ELSE Commit(new, guestWindow, o) /\ Idle

\* Delete or Backspace: handleDeleteLayer as the registered listener captured it
DeletePressed ==
    /\ appStep = "FINALIZE_AND_EXPORT"
    /\ selectedLayerIndex >= 0
    /\ LET captured == [ CurState EXCEPT
                            !.session = keyHandler.session,
                            !.settings = keyHandler.settings,
                            !.selectedLayerType = keyHandler.selectedLayerType,
                            !.finalCompositeImage = keyHandler.finalCompositeImage ]
           new == HandleDeleteLayer(captured)
           \* the state setters the handler called; what it only read stays as it is
           written == [ CurState EXCEPT
                          !.session = IF new.out # << >> THEN new.session ELSE @,
                          !.history = new.history,
                          !.historyIndex = new.historyIndex,
                          !.finalCompositeImage =
                              IF keyHandler.finalCompositeImage # NoImage
                              THEN NoImage ELSE @,
                          !.selectedLayerIndex = new.selectedLayerIndex,
                          !.out = new.out ]
       IN  Commit(written, guestWindow, Forget)
    /\ Idle

\* useGuestWindow().openGuestWindow: a new guest window, showing ATTRACT
GuestWindowOpened ==
    /\ ~guestWindow
    /\ obs.opens < MaxOpens
    /\ Commit(CurState, TRUE,
              [ Forget EXCEPT !.guestGot = "none", !.lastSet = [ mode |-> "ATTRACT" ],
                              !.opens = @ + 1 ])
    /\ guestState' = [ mode |-> "ATTRACT" ]
    /\ UNCHANGED toOperator
    /\ EditorIdle

\* useGuestWindow().closeGuestWindow: what was on its way to the window is lost
GuestWindowClosed ==
    /\ guestWindow
    /\ toGuest = << >>
    /\ Commit(CurState, FALSE, Forget)
    /\ Idle

\* The operator's channel listener takes the next message.
OperatorOnMessage ==
    /\ toOperator # << >>
    /\ LET msg == Head(toOperator)
           new == HandleGuestAction(CurState, msg)
           applied == IF ValidateInterWindowMessage(msg)
                         /\ StrIs(Get(msg, "type"), "GUEST_ACTION")
                      THEN Get(Get(msg, "payload"), "type").v ELSE "none"
       IN  Commit(new, guestWindow,
                  [ Uncommanded EXCEPT !.handled = MessageClass(msg),
                                       !.applied = applied,
                                       !.sent = Len(new.out) ])
    /\ toOperator' = Tail(toOperator)
    /\ UNCHANGED guestState
    /\ EditorIdle

\* The render the subscribed listener was created in: its session, settings and
\* collected emails; refs and functional updaters see the current values.
Captured ==
    [ CurState EXCEPT !.session = listener.session,
                      !.settings = listener.settings,
                      !.analytics.emailsCollected = listener.emailsCollected ]

\* What the setters the dispatch called leave: setSession(value) for start, drawing
\* and filter, setSession(prev => ...) for payment, setSettings(prev => ...) for the
\* fields the dispatch changed, setAnalytics(prev => ...) for a new email.
ListenerWritten(new, type) ==
    [ new EXCEPT
        !.session =
            IF type \in { "GUEST_START", "GUEST_ADD_DRAWING", "GUEST_SET_FILTER" }
            THEN new.session
            ELSE IF type = "GUEST_PAYMENT_COMPLETE" THEN [ session EXCEPT !.isPaid = TRUE ]
            ELSE session,
        !.settings =
            [ k \in DOMAIN settings |->
                IF new.settings[k] # listener.settings[k] THEN new.settings[k]
                ELSE settings[k] ],
        !.analytics.emailsCollected =
            IF new.analytics.emailsCollected # listener.emailsCollected
            THEN Append(analytics.emailsCollected,
                        new.analytics.emailsCollected[Len(new.analytics.emailsCollected)])
            ELSE analytics.emailsCollected ]

\* The channel's `message` event at the subscribed listener.  rendered: the operator
\* renders, and runs its effects, before the next message event; otherwise the next
\* message, already waiting, is handled by the same listener.  lost: the effect's
\* cleanup closes the channel while messages posted to it wait for their event.
ListenerOnMessage ==
    /\ toOperator # << >>
    /\ \E rendered \in BOOLEAN, lost \in BOOLEAN :
       \E msg \in { Head(toOperator) } :
       \E new \in { HandleGuestAction(Captured, msg) } :
       \E applied \in { IF ValidateInterWindowMessage(msg)
                            /\ StrIs(Get(msg, "type"), "GUEST_ACTION")
                         THEN Get(Get(msg, "payload"), "type").v ELSE "none" } :
       \E written \in { ListenerWritten(new, applied) } :
           /\ ~rendered => Len(toOperator) > 1
           /\ lost => /\ rendered
                      /\ Len(toOperator) > 1
                      /\ ListenerEffect(written) # listener
           /\ Rendered(written, guestWindow,
                       [ Uncommanded EXCEPT !.handled = MessageClass(msg),
                                            !.applied = applied,
                                            !.sent = Len(new.out) ])
           /\ listener' = IF rendered THEN ListenerEffect(written) ELSE listener
           /\ UNCHANGED kiosk
           /\ toOperator' = IF lost THEN << >> ELSE Tail(toOperator)
    /\ UNCHANGED guestState
    /\ EditorIdle

-----------------------------------------------------------------------------
(* Compositor actions *)

operatorVars == << appStep, session, settings, analytics, guestLayoutId, guestWindow,
                   frameOpacity, globalPhotoScale, history, historyIndex,
                   selectedLayerType, selectedLayerIndex, lastGuestBroadcast,
                   keyHandler, listener, layoutEditor, kiosk >>

-----------------------------------------------------------------------------
(* The operator's pointer on the editor's canvas *)

\* The editor open on a composition of two photos, two stickers and a text layer, on a
\* canvas of 400 x 600 pixels drawn on the main thread, the text layer selected.
Booted ==
    [ appStep |-> "FRAME_UPLOAD", session |-> EmptySession(FALSE),
      settings |-> InitSettings, analytics |-> InitAnalytics, guestLayoutId |-> "null",
      frameOpacity |-> 1, globalPhotoScale |-> 1, history |-> << >>, historyIndex |-> 0,
      selectedLayerType |-> "photo", selectedLayerIndex |-> -1,
      finalCompositeImage |-> NoImage, out |-> << >>, touched |-> FALSE,
      cfgTouched |-> FALSE ]

Composed ==
    LET framed == HandleFrameSelect(Booted, "frameA", {"1x1"})
        designed == HandleTemplateConfirm(framed, << 1, 2 >>, "2 / 3")
        shot == HandlePhotosSelected(designed, << "p1", "p2" >>)
        one == HandleAddSticker(shot, "sticker1", Half, Half)
        two == HandleAddSticker(one, "sticker2", Half, Half)
    IN  HandleAddText(two)

InitEditor ==
    /\ appStep = Composed.appStep
    /\ session = Composed.session
    /\ settings = Composed.settings
    /\ analytics = Composed.analytics
    /\ guestLayoutId = Composed.guestLayoutId
    /\ guestWindow = FALSE
    /\ frameOpacity = Composed.frameOpacity
    /\ globalPhotoScale = Composed.globalPhotoScale
    /\ history = Composed.history
    /\ historyIndex = Composed.historyIndex
    /\ selectedLayerType = Composed.selectedLayerType
    /\ selectedLayerIndex = Composed.selectedLayerIndex
    /\ finalCompositeImage = Composed.finalCompositeImage
    /\ useWorkerCompositor = FALSE
    /\ compositorWorkerRef = "unset"
    /\ workerPending = FALSE
    /\ canvasSize = << 400, 600 >>
    /\ timers = {}
    /\ effectCleanup = NoTimer
    /\ toWorker = << >>
    /\ fromWorker = << >>
    /\ toGuest = << >>
    /\ toOperator = << >>
    /\ guestState = [ mode |-> "ATTRACT" ]
    /\ now = BROADCAST_INTERVAL_MS
    /\ lastGuestBroadcast = 0
    /\ interaction = InitInteraction
    /\ transient = Layers(session)
    /\ toParent = << >>
    /\ review = InitReview
    /\ keyHandler = Closure(Composed)
    /\ listener = ListenerClosure(Composed)
    /\ layoutEditor = ClosedLayoutEditor
    /\ kiosk = InitKiosk
    /\ obs = InitObs

\* Where the pointer goes down or moves to: getMousePos / getTouchPos, canvas pixels.
Pointers ==
    { [ x |-> p[1], y |-> p[2] ] :
        p \in { << 200, 300 >>, << 200, 255 >>, << 100, 100 >>, << 10, 10 >>,
                << 262, 318 >> } }

\* The layer at a 0-based index of one kind of the session, null without one.
LayerAt(s, layerType, index) ==
    IF index >= 0 /\ index < Len(KindArray(Layers(s), layerType))
    THEN KindArray(Layers(s), layerType)[index + 1]
    ELSE NoSnapshot

\* onMouseDown / onTouchStart.  React renders again when onSelectLayer changed the
\* selection; the effects copy the props into the transient arrays only when idle.
PointerDownAt(points) ==
    /\ appStep = "FINALIZE_AND_EXPORT"
    /\ obs.downs < MaxDowns
    /\ \E mouse \in points :
        \E r \in { HandleStart(CurState, interaction, transient, mouse, canvasSize) } :
         LET rendered == \/ r.st.selectedLayerType # selectedLayerType
                         \/ r.st.selectedLayerIndex # selectedLayerIndex
             started == r.ia.mode # "idle"
         IN  /\ interaction' = r.ia
             /\ transient' = IF rendered /\ r.ia.mode = "idle"
                              THEN Layers(r.st.session) ELSE transient
             /\ Commit(r.st, guestWindow,
                        [ Forget EXCEPT
                            !.event = "down", !.pointer = mouse, !.moves = 0,
                            !.downs = @ + 1,
                            !.downKind = IF started THEN r.st.selectedLayerType
                                         ELSE "none",
                            !.downIndex = IF started THEN r.st.selectedLayerIndex ELSE -1,
                            !.downLayer =
                                IF started
                                THEN LayerAt(session, r.st.selectedLayerType,
                                             r.st.selectedLayerIndex)
                                ELSE NoSnapshot ])
    /\ UNCHANGED << toOperator, guestState, toParent, review >>

PointerDown == PointerDownAt(Pointers)

\* onMouseMove / onTouchMove during a gesture (outside one only the cursor changes).
PointerMoveTo(points) ==
    /\ appStep = "FINALIZE_AND_EXPORT"
    /\ interaction.mode # "idle"
    /\ \E mouse \in points :
        \E new \in { HandleMove(CurState, interaction, transient, mouse, canvasSize) } :
         Commit(new, guestWindow,
                [ Forget EXCEPT !.event = "move", !.pointer = mouse,
                                !.moves = Min(@ + 1, 2) ])
    /\ UNCHANGED << interaction, transient, toOperator, guestState, toParent, review >>

PointerMove == PointerMoveTo(Pointers)

\* Pointers for the gestures on a sticker and on the text above it: the sticker's body
\* clear of the text, its scale handle, twice as far from its centre as the handle,
\* the centre of both (the text's body), and the text's scale handle.
StickerPointers ==
    { [ x |-> p[1], y |-> p[2] ] :
        p \in { << 200, 255 >>, << 248, 364 >>, << 296, 428 >>, << 200, 300 >>,
                << 262, 318 >> } }

StickerPointerDown == PointerDownAt(StickerPointers)

\* Pointers for a gesture held while a key is pressed: the text's body and a point
\* above it.
HeldPointers ==
    { [ x |-> p[1], y |-> p[2] ] : p \in { << 200, 300 >>, << 200, 255 >> } }

HeldPointerDown == obs.downs < MaxHeldDowns /\ PointerDownAt(HeldPointers)

HeldPointerMove == obs.moves < MaxHeldMoves /\ PointerMoveTo(HeldPointers)

StickerPointerMove == PointerMoveTo(StickerPointers)

\* onMouseUp / onMouseLeave / onTouchEnd: no state of App changes, nothing renders.
PointerUp ==
    /\ appStep = "FINALIZE_AND_EXPORT"
    /\ interaction' = HandleEnd(interaction)
    /\ obs' = [ Forget EXCEPT !.event = "up" ]
    /\ UNCHANGED << operatorVars, compositorVars, syncVars, transient, toParent, review, now,
                    lastGuestBroadcast >>

\* A render for any other reason (the frame metrics of the render loop changed).
Rerendered ==
    /\ appStep = "FINALIZE_AND_EXPORT"
    /\ interaction.mode = "idle"
    /\ transient # Layers(session)
    /\ transient' = Layers(session)
    /\ obs' = [ Forget EXCEPT !.event = "none" ]
    /\ UNCHANGED << operatorVars, compositorVars, syncVars, interaction, toParent, review, now,
                    lastGuestBroadcast >>

-----------------------------------------------------------------------------

\* session.drawings.map(d => ({ id: d.id, ... })) throws on an undefined element
MapThrows(drawings) == \E i \in 1 .. Len(drawings) : drawings[i].t = "undefined"

ObsPost(o) ==
    [ o EXCEPT !.winPosts = Min(@ + 1, 2), !.editInFlight = FALSE ]

\* A timer of the request effect fires: build the message and post it.  The message
\* holds plain data only, so postMessage does not throw and its catch is not taken.
DebounceTimeout ==
    /\ \E t \in timers :
        /\ now >= t.deadline
        /\ timers' = timers \ {t}
        /\ IF MapThrows(t.snap.drawings)
           THEN UNCHANGED << toWorker, obs >>
           ELSE /\ toWorker' = Append(toWorker, CompositeRequest(t.snap, canvasSize))
                /\ obs' = ObsPost(obs)
    /\ UNCHANGED << operatorVars, editorVars, toParent, review, finalCompositeImage,
                    useWorkerCompositor,
                    compositorWorkerRef, workerPending, canvasSize, effectCleanup,
                    fromWorker, toGuest, toOperator, guestState, now >>

\* d.points.length throws when a drawing has no points array
RenderThrows(msg) ==
    \E i \in 1 .. Len(msg.drawings) : Get(msg.drawings[i], "points").t # "array"

\* d.points.length < 2: the path is skipped
Skipped(d) == Len(Get(d, "points").v) < 2

\* The sources renderComposite passes to loadImage.
ImageSources(msg) ==
    { msg.photos[i].src : i \in 1 .. Len(msg.photos) }
        \cup { msg.stickers[i].src : i \in 1 .. Len(msg.stickers) }
        \cup (IF msg.frameSrc \in FALSY THEN {} ELSE { msg.frameSrc })

\* A renderComposite with one try around all its layers: what was drawn before the
\* first image that does not load.
RenderCompositeUntilFailure(msg, broken) ==
    LET photosOk == \A i \in 1 .. Len(msg.photos) : msg.photos[i].src \notin broken
        frameOk == photosOk /\ msg.frameSrc \notin broken
        stickersOk ==
            frameOk /\ \A i \in 1 .. Len(msg.stickers) : msg.stickers[i].src \notin broken
    IN  [ size |-> << msg.width, msg.height >>,
          filter |-> msg.filter,
          photos |-> IF photosOk THEN msg.photos ELSE << >>,
          globalPhotoScale |-> msg.globalPhotoScale,
          frame |-> IF msg.frameSrc \in FALSY \/ ~frameOk THEN << >>
                    ELSE << msg.frameSrc, msg.frameOpacity >>,
          drawings |-> IF frameOk THEN SelectSeq(msg.drawings, LAMBDA d : ~Skipped(d))
                       ELSE << >>,
          stickers |-> IF stickersOk THEN msg.stickers ELSE << >>,
          textLayers |-> IF stickersOk THEN msg.textLayers ELSE << >> ]

\* The raster renderComposite produces, as what is drawn, in drawing order.
\* broken: the sources for which loadImage rejects; each is inside its own try.
RenderComposite(msg, broken) ==
    [ size |-> << msg.width, msg.height >>,
      filter |-> msg.filter,
      photos |-> SelectSeq(msg.photos, LAMBDA p : p.src \notin broken),
      globalPhotoScale |-> msg.globalPhotoScale,
      frame |-> IF msg.frameSrc \in FALSY \/ msg.frameSrc \in broken THEN << >>
                ELSE << msg.frameSrc, msg.frameOpacity >>,
      drawings |-> SelectSeq(msg.drawings, LAMBDA d : ~Skipped(d)),
      stickers |-> SelectSeq(msg.stickers, LAMBDA k : k.src \notin broken),
      textLayers |-> msg.textLayers ]

\* The worker's message listener: render, then post the RESULT.  Which images load is
\* for the worker's scope and the network to decide.
WorkerOnMessage ==
    /\ toWorker # << >>
    /\ LET ev == Head(toWorker) IN
       IF ev.type = "COMPOSITE" /\ ~RenderThrows(ev)
       THEN \E broken \in SUBSET ImageSources(ev) :
              fromWorker' = Append(fromWorker, [ type |-> "RESULT",
                                                 dataUrl |-> RenderComposite(ev, broken) ])
       ELSE UNCHANGED fromWorker
    /\ toWorker' = Tail(toWorker)
    /\ UNCHANGED << operatorVars, editorVars, toParent, review, finalCompositeImage,
                    useWorkerCompositor,
                    compositorWorkerRef, workerPending, canvasSize, timers,
                    effectCleanup, toGuest, toOperator, guestState, now, obs >>

\* w.onmessage of the operator
CompositorOnMessage ==
    /\ fromWorker # << >>
    /\ LET ev == Head(fromWorker) IN
       IF ev.type = "RESULT"
       THEN /\ finalCompositeImage' = ev.dataUrl
            /\ workerPending' = FALSE
       ELSE UNCHANGED << finalCompositeImage, workerPending >>
    /\ fromWorker' = Tail(fromWorker)
    /\ UNCHANGED << operatorVars, useWorkerCompositor, compositorWorkerRef,
                    canvasSize, timers, effectCleanup, toWorker, toGuest,
                    toOperator, guestState, now, obs >>
    /\ EditorIdle

\* CanvasEditor resizes the canvas to its container.
CanvasResized ==
    /\ appStep = "FINALIZE_AND_EXPORT"
    /\ EditsLeft
    /\ \E size \in CanvasSizes \ {canvasSize} : canvasSize' = size
    /\ obs' = Edit
    /\ UNCHANGED << operatorVars, editorVars, toParent, review, finalCompositeImage,
                    useWorkerCompositor,
                    compositorWorkerRef, workerPending, timers, effectCleanup,
                    toWorker, fromWorker, toGuest, toOperator, guestState, now >>

\* Time passes; a timer that is due runs before time passes further.
Tick ==
    /\ now + Quantum <= MaxNow
    /\ \A t \in timers : t.deadline > now
    /\ now' = now + Quantum
    /\ UNCHANGED << operatorVars, editorVars, toParent, review, compositorVars, syncVars, obs >>

-----------------------------------------------------------------------------
(* Guest window and other contexts on the channel *)

MsgType(m) == IF IsString(Get(m, "type")) THEN Get(m, "type").v ELSE "#other"

\* A guest window that merges the payload into its state.
HandleMessageMerge(state, data) ==
    IF MsgType(data) = "SET_STATE"
    THEN LET payload == Get(data, "payload") IN
         [ k \in DOMAIN state \cup DOMAIN payload |->
             IF k \in DOMAIN payload THEN payload[k] ELSE state[k] ]
    ELSE state

\* GuestWindow.handleMessage
HandleMessage(state, data) ==
    IF MsgType(data) = "SET_STATE" THEN Get(data, "payload") ELSE state

GuestOnMessage ==
    /\ toGuest # << >>
    /\ guestState' = HandleMessage(guestState, Head(toGuest))
    /\ toGuest' = Tail(toGuest)
    /\ obs' = [ Uncommanded EXCEPT
                 !.guestGot = MsgType(Head(toGuest)),
                 !.lastSet = IF MsgType(Head(toGuest)) = "SET_STATE"
                             THEN Get(Head(toGuest), "payload") ELSE @ ]
    /\ UNCHANGED << operatorVars, editorVars, toParent, compositorVars, toOperator, now >>
    /\ ReviewKept

GuestAction(fields) == Obj([ type |-> Str("GUEST_ACTION"), payload |-> Obj(fields) ])

\* The intents the guest window's screens emit through sendAction.
Mode(state) == IF "mode" \in DOMAIN state THEN state.mode ELSE "#none"

GuestIntents(state) ==
    CASE Mode(state) = "ATTRACT" -> { [ type |-> Str("GUEST_START") ] }
      [] Mode(state) = "CONFIG_SELECTION" ->
            { [ type |-> Str("GUEST_SELECT_LAYOUT"), layout |-> Str(state.layoutOptions[i].id) ] :
                i \in 1 .. Len(state.layoutOptions) }
      [] Mode(state) = "FRAME_SELECTION" ->
            \* onSelect(frame.src): a FrameConfig has thumbnailSrc and no src
            { [ type |-> Str("GUEST_SELECT_FRAME"),
                frameSrc |-> IF "src" \in DOMAIN state.availableFrames[i]
                             THEN Str(state.availableFrames[i].src) ELSE Undef ] :
                i \in 1 .. Len(state.availableFrames) }
      [] Mode(state) = "REVIEW" ->
            { [ type |-> Str("GUEST_ADD_DRAWING"), drawing |-> DrawingPath("d1") ],
              [ type |-> Str("GUEST_SET_FILTER"), filter |-> Str("sepia(0.8)") ] }
      [] Mode(state) = "PAYMENT" -> { [ type |-> Str("GUEST_PAYMENT_COMPLETE") ] }
      [] Mode(state) = "DELIVERY" ->
            { [ type |-> Str("GUEST_EMAIL"), email |-> Str("a@x.io") ],
              [ type |-> Str("GUEST_PRINT") ] }
      [] OTHER -> {}

GuestSendAction ==
    /\ guestWindow
    /\ Len(toOperator) < MaxChannel
    /\ obs.posts < MaxPosts
    /\ \E fields \in GuestIntents(guestState) :
           toOperator' = Append(toOperator, GuestAction(fields))
    /\ obs' = [ Uncommanded EXCEPT !.posts = @ + 1 ]
    /\ UNCHANGED << operatorVars, editorVars, toParent, review, compositorVars, toGuest,
                    guestState, now >>

\* The intents ReviewMode's sticker, text, undo and retake buttons emit.
ReviewToolIntents ==
    { [ type |-> Str("GUEST_ADD_STICKER"),
        sticker |-> Obj([ src |-> Str("emoji"), x |-> Num(1), y |-> Num(1),
                          scale |-> Num(1) ]) ],
      [ type |-> Str("GUEST_ADD_TEXT"),
        text |-> Obj([ content |-> Str("hello"), x |-> Num(1), y |-> Num(1),
                       fontSize |-> Num(48), color |-> Str("#ffffff") ]) ],
      [ type |-> Str("GUEST_UNDO") ],
      [ type |-> Str("GUEST_RETAKE") ] }

\* ReviewMode: window.parent.postMessage({ type: 'GUEST_ACTION', payload: action }, '*')
GuestReviewTool ==
    /\ guestWindow
    /\ Mode(guestState) = "REVIEW"
    /\ Len(toParent) < MaxChannel
    /\ obs.posts < MaxPosts
    /\ \E fields \in ReviewToolIntents :
           toParent' = Append(toParent, GuestAction(fields))
    /\ obs' = [ Uncommanded EXCEPT !.posts = @ + 1 ]
    /\ UNCHANGED << operatorVars, editorVars, compositorVars, syncVars, review, now >>

\* ReviewMode's drawing tool.  Each handler gives the component's next state and the
\* actions it passes to sendAction.
StartDrawing(rv, pos) ==
    IF rv.activeTool # "drawing" THEN [ rv |-> rv, send |-> << >> ]
    ELSE [ rv |-> [ rv EXCEPT !.isDrawing = TRUE, !.currentPath = << pos >> ],
           send |-> << >> ]

\* A moveDrawing that commits what it has at every point.
MoveDrawingCommitting(rv, pos) ==
    IF ~rv.isDrawing THEN [ rv |-> rv, send |-> << >> ]
    ELSE [ rv |-> [ rv EXCEPT !.currentPath = Append(@, pos) ],
           send |-> << [ type |-> Str("GUEST_ADD_DRAWING"),
                         drawing |-> Obj([ id |-> Str("0"),
                                           points |-> Arr(Append(rv.currentPath, pos)),
                                           color |-> Str("#ff0000"),
                                           width |-> Num(Unit \div 200) ]) ] >> ]

MoveDrawing(rv, pos) ==
    IF ~rv.isDrawing THEN [ rv |-> rv, send |-> << >> ]
    ELSE [ rv |-> [ rv EXCEPT !.currentPath = Append(@, pos) ], send |-> << >> ]

\* time: Date.now()
EndDrawing(rv, time) ==
    IF ~rv.isDrawing THEN [ rv |-> rv, send |-> << >> ]
    ELSE [ rv |-> [ rv EXCEPT !.isDrawing = FALSE, !.currentPath = << >> ],
           send |-> IF Len(rv.currentPath) > 1
                    THEN << [ type |-> Str("GUEST_ADD_DRAWING"),
                              drawing |-> Obj([ id |-> Str(ToString(time)),
                                                points |-> Arr(rv.currentPath),
                                                color |-> Str("#ff0000"),
                                                width |-> Num(Unit \div 200) ]) ] >>
                    ELSE << >> ]

\* getPos: where the pointer is on the drawing canvas, normalized
ReviewPoints == { Point(0, 0), Point(Half, Half), Point(Unit, Half) }

ReviewShown == guestWindow /\ Mode(guestState) = "REVIEW"

\* GuestWindow.sendAction for each action a handler of ReviewMode passed to it.
ReviewCommit(r, o) ==
    /\ review' = r.rv
    /\ toOperator' = toOperator \o [ i \in 1 .. Len(r.send) |-> GuestAction(r.send[i]) ]
    /\ obs' = [ o EXCEPT !.posts = @ + Len(r.send) ]
    /\ UNCHANGED << operatorVars, editorVars, toParent, compositorVars, toGuest,
                    guestState, now >>

\* The Draw button of the toolbar.
DrawingToolClicked ==
    /\ ReviewShown
    /\ review' = [ review EXCEPT
                     !.activeTool = IF @ = "drawing" THEN "none" ELSE "drawing" ]
    /\ UNCHANGED << operatorVars, editorVars, toParent, compositorVars, syncVars, now,
                    obs >>

\* onMouseDown / onTouchStart of the drawing canvas, which takes pointer events only
\* while the drawing tool is active.
ReviewPointerDown ==
    /\ ReviewShown
    /\ review.activeTool = "drawing"
    /\ obs.posts < MaxPosts
    /\ Len(toOperator) < MaxChannel
    /\ \E pos \in ReviewPoints :
         \E r \in { StartDrawing(review, pos) } :
           ReviewCommit(r, [ obs EXCEPT !.pen = "down", !.stroke = << pos >> ])

\* onMouseMove / onTouchMove
ReviewPointerMove ==
    /\ ReviewShown
    /\ review.activeTool = "drawing"
    /\ Len(obs.stroke) < MaxPath
    /\ obs.posts < MaxPosts
    /\ Len(toOperator) < MaxChannel
    /\ \E pos \in ReviewPoints :
         \E r \in { MoveDrawing(review, pos) } :
           ReviewCommit(r, [ obs EXCEPT
                               !.pen = IF obs.pen \in { "down", "move" }
                                       THEN "move" ELSE @,
                               !.stroke = IF obs.pen \in { "down", "move" }
                                          THEN Append(@, pos) ELSE @ ])

\* onMouseUp / onTouchEnd
ReviewPointerUp ==
    /\ ReviewShown
    /\ review.activeTool = "drawing"
    /\ obs.posts < MaxPosts
    /\ Len(toOperator) < MaxChannel
    /\ \E r \in { EndDrawing(review, now) } :
           ReviewCommit(r, [ obs EXCEPT !.pen = "up" ])

\* Messages another context on the same origin can publish on the channel.
InvalidMessages ==
    { Obj([ type |-> Str("GUEST_ACTION") ]),
      Obj([ type |-> Str("GUEST_ACTION"), payload |-> Str("GUEST_START") ]),
      GuestAction([ type |-> Num(1) ]),
      GuestAction([ type |-> Str("GUEST_RESET") ]),
      GuestAction([ type |-> Str("GUEST_SELECT_LAYOUT"), layout |-> Num(3) ]) }

MisshapenMessages ==
    { GuestAction([ type |-> Str("GUEST_SELECT_FRAME"), frameSrc |-> Num(7) ]),
      GuestAction([ type |-> Str("GUEST_EMAIL"), email |-> Str(LongEmail) ]),
      GuestAction([ type |-> Str("GUEST_EMAIL"), email |-> Num(5) ]),
      GuestAction([ type |-> Str("GUEST_SET_FILTER"), filter |-> Num(42) ]),
      GuestAction([ type |-> Str("GUEST_ADD_DRAWING") ]),
      GuestAction([ type |-> Str("GUEST_ADD_DRAWING"),
                    drawing |-> Obj([ id |-> Str("d2") ]) ]) }

WellFormedMessages ==
    { GuestAction([ type |-> Str("GUEST_SELECT_FRAME"), frameSrc |-> Str("frameB") ]),
      GuestAction([ type |-> Str("GUEST_SELECT_LAYOUT"), layout |-> Str("1x1") ]),
      GuestAction([ type |-> Str("GUEST_PRINT") ]),
      GuestAction([ type |-> Str("GUEST_PAYMENT_COMPLETE") ]),
      GuestAction([ type |-> Str("GUEST_EMAIL"), email |-> Str("a@x.io") ]),
      Obj([ type |-> Str("GET_STATE") ]),
      SetState([ mode |-> "COUNTDOWN", countdown |-> 3 ]) }

\* Another context publishes: every other listener of the channel gets the message.
Publish(m, o) ==
    /\ obs.posts < MaxPosts
    /\ Len(toOperator) < MaxForeign
    /\ guestWindow => Len(toGuest) < MaxChannel
    /\ toOperator' = Append(toOperator, m)
    /\ toGuest' = IF guestWindow THEN Append(toGuest, m) ELSE toGuest
    /\ obs' = [ o EXCEPT !.posts = @ + 1 ]
    /\ UNCHANGED << operatorVars, editorVars, toParent, review, compositorVars, guestState, now >>

ForeignPost ==
    \E m \in InvalidMessages \cup MisshapenMessages \cup WellFormedMessages : Publish(m, obs)

\* Another context publishes a drawing, well formed or not.
ForeignDrawing ==
    /\ appStep = "FINALIZE_AND_EXPORT"
    /\ EditsLeft
    /\ \E d \in { DrawingPath("d1"), Obj([ id |-> Str("d2") ]), Undef } :
           Publish(GuestAction([ type |-> Str("GUEST_ADD_DRAWING"), drawing |-> d ]),
                   [ obs EXCEPT !.edits = @ + 1 ])

-----------------------------------------------------------------------------
(* Kiosk mode: the inactivity lock and its unlock overlay *)

\* setInterval(..., 1000) of the kiosk effect
KIOSK_INTERVAL_MS == 1000

\* What the operator types into the settings panel and into the unlock overlay.
KioskTimers == { 0, 1 }
KioskPins == { "", "1234" }
PinEntries == { "", "1234", "9999" }
ShortcutKeys == { "z", "y", "s", "Delete" }

\* The interval callback's test, for the kiosk state k, the settings cfg of the
\* render that started the interval, and Date.now() = t
ShouldLockWhileEditing(k, cfg, t) ==
    /\ cfg.kioskMode
    /\ cfg.autoResetTimer # 0
    /\ ~k.isKioskLocked
    /\ t - k.lastActivity > cfg.autoResetTimer * 1000

ShouldLock(k, cfg, t) ==
    /\ cfg.kioskMode
    /\ cfg.autoResetTimer # 0
    /\ ~k.isSettingsOpen
    /\ ~k.isKioskLocked
    /\ t - k.lastActivity > cfg.autoResetTimer * 1000

\* attemptUnlock
AttemptUnlock(k, cfg, t) ==
    IF k.unlockAttemptPin = cfg.kioskPin
    THEN [ k EXCEPT !.isKioskLocked = FALSE, !.unlockAttemptPin = "", !.lastActivity = t ]
    ELSE k

\* handleActivity, the listener of pointermove, keydown and click
HandleActivity(k, t) == [ k EXCEPT !.lastActivity = t, !.key = "none" ]

\* Every variable a kiosk step without a change of the settings leaves alone; the
\* keyboard effect registers a new listener when isKioskLocked or isSettingsOpen
\* changed.
KioskFrame ==
    /\ keyHandler' = IF kiosk'.isKioskLocked # kiosk.isKioskLocked
                        \/ kiosk'.isSettingsOpen # kiosk.isSettingsOpen
                     THEN Closure(CurState) ELSE keyHandler
    /\ obs' = Forget
    /\ UNCHANGED << appStep, session, settings, analytics, guestLayoutId, guestWindow,
                    frameOpacity, globalPhotoScale, history, historyIndex,
                    selectedLayerType, selectedLayerIndex, finalCompositeImage,
                    useWorkerCompositor, compositorWorkerRef, workerPending, canvasSize,
                    timers, effectCleanup, toWorker, fromWorker, toGuest, toOperator,
                    guestState, lastGuestBroadcast, interaction, transient,
                    toParent, review, listener, layoutEditor >>

\* A pointer move over the window.
OperatorActivity ==
    /\ kiosk.lastActivity # now
    /\ kiosk' = HandleActivity(kiosk, now)
    /\ UNCHANGED now
    /\ KioskFrame

\* The settings button of the finalize step, disabled while the kiosk is locked.
SettingsOpened ==
    /\ ~kiosk.isKioskLocked
    /\ ~kiosk.isSettingsOpen
    /\ kiosk' = [ HandleActivity(kiosk, now) EXCEPT !.isSettingsOpen = TRUE ]
    /\ UNCHANGED now
    /\ KioskFrame

\* The Kiosk Mode section of the settings panel, then Save: handleSave passes the
\* panel's settings on and closes the panel.
KioskSaved ==
    /\ kiosk.isSettingsOpen
    /\ \E kioskMode \in BOOLEAN, autoResetTimer \in KioskTimers, kioskPin \in KioskPins :
       \E new \in { HandleSave(CurState,
                               [ settings EXCEPT !.kioskMode = kioskMode,
                                                 !.autoResetTimer = autoResetTimer,
                                                 !.kioskPin = kioskPin ]) } :
           /\ Rendered(new, guestWindow, Forget)
           /\ listener' = ListenerEffect(new)
    /\ kiosk' = [ HandleActivity(kiosk, now) EXCEPT !.isSettingsOpen = FALSE ]
    /\ Idle

\* A second passes and the interval's callback runs.
KioskInterval ==
    /\ now + KIOSK_INTERVAL_MS <= MaxKioskNow
    /\ now' = now + KIOSK_INTERVAL_MS
    /\ kiosk' = [ kiosk EXCEPT
                    !.isKioskLocked = @ \/ ShouldLock(kiosk, settings, now'),
                    !.key = "none" ]
    /\ KioskFrame

\* Typing into the overlay's PIN field, or its Clear button.
PinTyped ==
    /\ kiosk.isKioskLocked
    /\ settings.kioskMode
    /\ \E pin \in PinEntries \ { kiosk.unlockAttemptPin } :
           kiosk' = [ HandleActivity(kiosk, now) EXCEPT !.unlockAttemptPin = pin ]
    /\ UNCHANGED now
    /\ KioskFrame

\* The overlay's Unlock button, disabled while the PIN field is empty.
UnlockClicked ==
    /\ kiosk.isKioskLocked
    /\ settings.kioskMode
    /\ kiosk.unlockAttemptPin # ""
    /\ kiosk' = [ AttemptUnlock(HandleActivity(kiosk, now), settings, now)
                    EXCEPT !.key = "unlock" ]
    /\ UNCHANGED now
    /\ KioskFrame

\* What Delete or Backspace writes: handleDeleteLayer as the registered listener
\* captured it.
DeleteWritten ==
    LET captured == [ CurState EXCEPT
                        !.session = keyHandler.session,
                        !.settings = keyHandler.settings,
                        !.selectedLayerType = keyHandler.selectedLayerType,
                        !.finalCompositeImage = keyHandler.finalCompositeImage ]
        new == HandleDeleteLayer(captured)
    IN  [ CurState EXCEPT
            !.session = IF new.out # << >> THEN new.session ELSE @,
            !.history = new.history,
            !.historyIndex = new.historyIndex,
            !.finalCompositeImage =
                IF keyHandler.finalCompositeImage # NoImage THEN NoImage ELSE @,
            !.selectedLayerIndex = new.selectedLayerIndex,
            !.out = new.out ]

\* handleKeyDown of the registered listener for Ctrl+Z, Ctrl+Y, Ctrl+S and Delete:
\* the state it leaves, or the state as it is when it calls no setter.
HandleKeyDown(st, locked, key) ==
    IF st.appStep # "FINALIZE_AND_EXPORT" \/ locked THEN st
    ELSE CASE key = "z" -> IF st.historyIndex > 0
                           THEN Undo(st, keyHandler.finalCompositeImage) ELSE st
           [] key = "y" -> IF st.historyIndex < Len(st.history) - 1
                           THEN Redo(st, keyHandler.finalCompositeImage) ELSE st
           [] key = "Delete" -> IF st.selectedLayerIndex >= 0 THEN DeleteWritten ELSE st
           [] OTHER -> st

\* A keydown of one of the shortcuts, outside an input field: handleActivity, and
\* handleKeyDown; Ctrl+S starts handleDownload, which counts the file.
ShortcutPressed ==
    \E key \in ShortcutKeys :
    \E new \in { HandleKeyDown(CurState, kiosk.isKioskLocked, key) } :
        /\ kiosk' = [ HandleActivity(kiosk, now) EXCEPT
                        !.key = key,
                        !.fileCounter =
                            IF key = "s" /\ appStep = "FINALIZE_AND_EXPORT"
                               /\ ~kiosk.isKioskLocked
                            THEN @ + 1 ELSE @ ]
        /\ kiosk'.fileCounter <= MaxFiles
        /\ IF new = CurState
           THEN /\ obs' = Forget
                /\ UNCHANGED << appStep, session, settings, analytics, guestLayoutId,
                                guestWindow, frameOpacity, globalPhotoScale, history,
                                historyIndex, selectedLayerType, selectedLayerIndex,
                                finalCompositeImage, useWorkerCompositor,
                                compositorWorkerRef, workerPending, canvasSize, timers,
                                effectCleanup, toWorker, fromWorker, toGuest, toOperator,
                                guestState, now, lastGuestBroadcast, interaction,
                                transient, toParent, review, keyHandler, listener,
                                layoutEditor >>
           ELSE /\ EditsLeft
                /\ Rendered(new, guestWindow, Edit)
                /\ listener' = ListenerEffect(new)
                /\ Idle

-----------------------------------------------------------------------------
(* SettingsPanel's layout editor: LayoutEditorModal *)

\* const DEBOUNCE_MS = 250 of LayoutEditorModal
LAYOUT_DEBOUNCE_MS == 250

\* localSettings.layoutOptions?.find(l => l.id === editingLayoutId): its placeholders
LayoutProp(localSettings, editingLayoutId) ==
    LET i == CHOOSE i \in DOMAIN localSettings.layoutOptions :
                 localSettings.layoutOptions[i].id = editingLayoutId
    IN  localSettings.layoutOptions[i].placeholders

\* The onSave a render of the panel hands to the modal: handleSaveLayoutPlaceholders
\* and the localSettings and editingLayoutId of that render.
OnSave(m) == [ localSettings |-> m.localSettings, editingLayoutId |-> m.editingLayoutId ]

\* handleEditGlobalLayout, and the mount of the modal with the layout as its prop
HandleEditGlobalLayout(m, layoutId) ==
    LET layout == LayoutProp(m.localSettings, layoutId)
    IN  [ m EXCEPT !.isEditingLayout = TRUE, !.editingLayoutId = layoutId,
                   !.pendingPlaceholders = layout, !.history = << layout >>,
                   !.historyIndex = 0, !.canUndo = FALSE, !.canRedo = FALSE,
                   !.debounceTimer = [ null |-> TRUE ],
                   !.command = "none", !.target = [ null |-> TRUE ] ]

\* commitPlaceholders(ph) with the onSave of some render: the panel's
\* handleSaveLayoutPlaceholders sets layoutOptions, and placeholders when the layout
\* is the guest's; the edited layout is a new object, so the modal's effect on
\* [layout] runs after the render and starts the history over from the layout.
CommitPlaceholders(m, onSave, ph) ==
    LET saved == HandleSaveLayoutPlaceholders(onSave.localSettings, guestLayoutId,
                                              onSave.editingLayoutId, ph)
        local == [ m.localSettings EXCEPT
                     !.layoutOptions = saved.layoutOptions,
                     !.placeholders = IF saved.placeholders # onSave.localSettings.placeholders
                                      THEN saved.placeholders ELSE @ ]
        layout == LayoutProp(local, m.editingLayoutId)
    IN  [ m EXCEPT !.localSettings = local, !.committed = ph,
                   !.pendingPlaceholders = layout, !.history = << layout >>,
                   !.historyIndex = 0, !.canUndo = FALSE, !.canRedo = FALSE ]

\* handlePlaceholdersChange(next): history push when next differs from the entry at
\* the cursor, then scheduleSave(next), which replaces the timer of the modal
HandlePlaceholdersChange(m, next) ==
    LET changed == m.history[m.historyIndex + 1] # next
        sliced == Append(SubSeq(m.history, 1, m.historyIndex + 1), next)
        pushed == IF changed
                  THEN [ m EXCEPT !.history = sliced, !.historyIndex = Len(sliced) - 1,
                                  !.canUndo = Len(sliced) - 1 > 0, !.canRedo = FALSE ]
                  ELSE m
    IN  [ pushed EXCEPT !.pendingPlaceholders = next,
                        !.debounceTimer = [ deadline |-> now + LAYOUT_DEBOUNCE_MS,
                                            next |-> next, onSave |-> OnSave(m) ],
                        !.command = "edit", !.target = [ null |-> TRUE ] ]

\* undo of the modal: the cursor moves back and the entry is committed at once; the
\* timer is left as it is
LayoutUndo(m) ==
    IF m.historyIndex > 0
    THEN LET prev == m.history[m.historyIndex]
             moved == [ m EXCEPT !.historyIndex = @ - 1, !.pendingPlaceholders = prev,
                                 !.canUndo = m.historyIndex - 1 > 0, !.canRedo = TRUE,
                                 !.command = "undo", !.target = prev ]
         IN  CommitPlaceholders(moved, OnSave(m), prev)
    ELSE m

\* redo of the modal
LayoutRedo(m) ==
    IF m.historyIndex < Len(m.history) - 1
    THEN LET next == m.history[m.historyIndex + 2]
             moved == [ m EXCEPT !.historyIndex = @ + 1, !.pendingPlaceholders = next,
                                 !.canUndo = TRUE,
                                 !.canRedo = m.historyIndex + 1 < Len(m.history) - 1,
                                 !.command = "redo", !.target = next ]
         IN  CommitPlaceholders(moved, OnSave(m), next)
    ELSE m

\* Every variable of the application outside the settings panel.
AppUnchanged ==
    UNCHANGED << appStep, session, settings, analytics, guestLayoutId, guestWindow,
                 frameOpacity, globalPhotoScale, history, historyIndex,
                 selectedLayerType, selectedLayerIndex, finalCompositeImage,
                 useWorkerCompositor, compositorWorkerRef, workerPending, canvasSize,
                 timers, effectCleanup, toWorker, fromWorker, toGuest, toOperator,
                 guestState, lastGuestBroadcast, interaction, transient,
                 toParent, review, keyHandler, listener, obs >>

\* The "Edit" button of a layout in the settings panel.
LayoutEditOpened ==
    /\ ~layoutEditor.isEditingLayout
    /\ \E layoutId \in EditableLayouts :
           layoutEditor' = HandleEditGlobalLayout(layoutEditor, layoutId)
    /\ AppUnchanged
    /\ UNCHANGED << kiosk, now >>

\* TemplateDesigner's onPlaceholdersChange: the end of a drag or a resize.
LayoutPlaceholdersChanged ==
    /\ layoutEditor.isEditingLayout
    /\ Len(layoutEditor.history) < MaxLayoutHistory
    /\ \E next \in PlaceholderChoices :
           layoutEditor' = HandlePlaceholdersChange(layoutEditor, next)
    /\ AppUnchanged
    /\ UNCHANGED << kiosk, now >>

\* The modal's Undo and Redo buttons, disabled with canUndo and canRedo false.
LayoutHistoryClicked ==
    /\ layoutEditor.isEditingLayout
    /\ \/ /\ layoutEditor.canUndo
          /\ layoutEditor' = LayoutUndo(layoutEditor)
       \/ /\ layoutEditor.canRedo
          /\ layoutEditor' = LayoutRedo(layoutEditor)
    /\ AppUnchanged
    /\ UNCHANGED << kiosk, now >>

\* The debounce timer of scheduleSave runs: commitPlaceholders(next) as the render
\* of the edit captured it.
LayoutSaveDue ==
    /\ "deadline" \in DOMAIN layoutEditor.debounceTimer
    /\ now >= layoutEditor.debounceTimer.deadline
    /\ layoutEditor' =
           [ CommitPlaceholders(layoutEditor, layoutEditor.debounceTimer.onSave,
                                layoutEditor.debounceTimer.next)
               EXCEPT !.debounceTimer = [ null |-> TRUE ] ]
    /\ AppUnchanged
    /\ UNCHANGED << kiosk, now >>

-----------------------------------------------------------------------------
(* Specifications *)

\* The compositor pipeline under the operator's edits.
NextCompositor ==
    \/ FrameSelected
    \/ TemplateConfirmed
    \/ PhotosSelected
    \/ PhotoUpdated
    \/ StickerAdded
    \/ TextAdded
    \/ OpacityChanged
    \/ GlobalScaleChanged
    \/ FilterChanged
    \/ CreateNewClicked
    \/ CanvasResized
    \/ ForeignDrawing
    \/ OperatorOnMessage
    \/ DebounceTimeout
    \/ WorkerOnMessage
    \/ CompositorOnMessage
    \/ Tick

SpecCompositor == InitCompositor /\ [][NextCompositor]_vars

\* The sync protocol between the operator, the guest window and other contexts.
NextSync ==
    \/ FrameSelected
    \/ TemplateConfirmed
    \/ PhotosSelected
    \/ VendingSaved
    \/ GuestWindowOpened
    \/ GuestWindowClosed
    \/ GuestSendAction
    \/ ForeignPost
    \/ OperatorOnMessage
    \/ GuestOnMessage

SpecSync == Init /\ [][NextSync]_vars

\* The throttled rebroadcast of the active guest layout.
NextThrottle ==
    \/ GuestWindowOpened
    \/ GuestWindowClosed
    \/ GuestSendAction
    \/ OperatorOnMessage
    \/ GuestOnMessage
    \/ SettingsSaved
    \/ Tick

SpecThrottle == Init /\ [][NextThrottle]_vars

\* The same, with the event loop dispatching every message event and time passing.
SpecThrottleLive ==
    /\ Init /\ [][NextThrottle]_vars
    /\ WF_vars(GuestOnMessage) /\ WF_vars(OperatorOnMessage) /\ WF_vars(Tick)

\* The operator's layer operations: add, delete, undo, redo, new session.
NextLayers ==
    \/ FrameSelected
    \/ TemplateConfirmed
    \/ PhotosSelected
    \/ StickerAdded
    \/ TextAdded
    \/ DeletePressed
    \/ UndoPressed
    \/ RedoPressed
    \/ CreateNewClicked

SpecLayers == Init /\ [][NextLayers]_vars

\* The guest window's screens and the intents they emit.
NextGuest ==
    \/ FrameSelected
    \/ TemplateConfirmed
    \/ PhotosSelected
    \/ GuestWindowOpened
    \/ GuestWindowClosed
    \/ GuestSendAction
    \/ GuestReviewTool
    \/ OperatorOnMessage
    \/ GuestOnMessage

SpecGuest == Init /\ [][NextGuest]_vars

\* The operator's pointer on the editor's canvas, and the Add Text button.
NextEditor ==
    \/ PointerDown
    \/ PointerMove
    \/ PointerUp
    \/ Rerendered
    \/ TextAdded

SpecEditor == InitEditor /\ [][NextEditor]_vars

\* The editor under gestures only, with the pointer on and around a sticker.
NextSticker ==
    \/ StickerPointerDown
    \/ StickerPointerMove
    \/ PointerUp
    \/ Rerendered

SpecSticker == InitEditor /\ [][NextSticker]_vars

\* The editor's pointer together with the keyboard shortcuts of App.
NextHeld ==
    \/ HeldPointerDown
    \/ HeldPointerMove
    \/ PointerUp
    \/ Rerendered
    \/ UndoPressed
    \/ DeletePressed

SpecHeld == InitEditor /\ [][NextHeld]_vars

\* The guest draws on the review screen; the operator's listener applies the strokes.
NextReview ==
    \/ FrameSelected
    \/ TemplateConfirmed
    \/ PhotosSelected
    \/ GuestWindowOpened
    \/ GuestOnMessage
    \/ OperatorOnMessage
    \/ DrawingToolClicked
    \/ ReviewPointerDown
    \/ ReviewPointerMove
    \/ ReviewPointerUp

SpecReview == Init /\ [][NextReview]_vars

\* Printing and payment, from the finished composition.
NextVending ==
    \/ GuestWindowOpened
    \/ VendingSaved
    \/ QrCodeClicked
    \/ PrintClicked
    \/ CreateNewClicked
    \/ GuestSendAction
    \/ GuestOnMessage
    \/ ListenerOnMessage

SpecVending == InitEditor /\ [][NextVending]_vars

\* The kiosk lock over the finished composition.
NextKiosk ==
    \/ OperatorActivity
    \/ SettingsOpened
    \/ KioskSaved
    \/ KioskInterval
    \/ PinTyped
    \/ UnlockClicked
    \/ ShortcutPressed

SpecKiosk == InitEditor /\ [][NextKiosk]_vars

\* The layout editor of the settings panel.
NextLayoutEditor ==
    \/ LayoutEditOpened
    \/ LayoutPlaceholdersChanged
    \/ LayoutHistoryClicked
    \/ LayoutSaveDue
    \/ Tick

SpecLayoutEditor == Init /\ [][NextLayoutEditor]_vars

\* The operator's channel listener under messages that arrive in quick succession.
NextListener ==
    \/ FrameSelected
    \/ TemplateConfirmed
    \/ PhotosSelected
    \/ GuestWindowOpened
    \/ GuestSendAction
    \/ GuestOnMessage
    \/ ListenerOnMessage

SpecListener == Init /\ [][NextListener]_vars

\* AttractMode's onStart: the only intent of the attract screen
GuestStartTapped ==
    /\ Mode(guestState) = "ATTRACT"
    /\ GuestSendAction

\* The history of session snapshots: edits, undo and redo, tethered shooting from the
\* hot folder, new sessions and resets, and the guest's start.
NextHistory ==
    \/ FrameSelected
    \/ TemplateConfirmed
    \/ PhotosSelected
    \/ HotFolderPicked
    \/ HotFolderUsed
    \/ HotFolderImported
    \/ StickerAdded
    \/ UndoPressed
    \/ RedoPressed
    \/ CreateNewClicked
    \/ ResetClicked
    \/ GuestWindowOpened
    \/ GuestStartTapped
    \/ GuestOnMessage
    \/ OperatorOnMessage

SpecHistory == Init /\ [][NextHistory]_vars

-----------------------------------------------------------------------------
(* Properties of the compositor pipeline *)

\* C1: at most one COMPOSITE request is outstanding at the worker at any time: the
\* operator never posts a request while an earlier one has not been answered.
C1_AtMostOneOutstanding == Outstanding <= 1

\* C1, its case: a request is outstanding and an edit arrived in the meantime.
C1_EditWhileOutstanding == Len(toWorker) = 1 /\ obs.editInFlight

\* C2: a burst of N >= 1 edits within one 150 ms window that starts with no request
\* pending, once it has gone quiet, has had exactly one COMPOSITE request posted.
C2_OneRequestPerBurst ==
    ( /\ obs.winOpen /\ obs.winClean /\ obs.winEdits >= 1
      /\ timers = {}
      /\ now - obs.winLast >= DEBOUNCE_MS )
    => obs.winPosts = 1

\* C3: an edit made while a request is in flight is covered by a further COMPOSITE
\* request: once the RESULT has arrived and the pipeline is at rest, no such edit is
\* left without a request posted after it.
C3_InFlightEditCovered ==
    ~( /\ obs.editInFlight
       /\ ~workerPending /\ Outstanding = 0 /\ timers = {} )

\* C4: every COMPOSITE request the worker takes is answered by exactly one RESULT.
C4_EveryRequestAnswered ==
    [][ (toWorker # << >> /\ toWorker' = Tail(toWorker))
        => Len(fromWorker') = Len(fromWorker) + 1 ]_vars

\* C5: a COMPOSITE request, when posted, carries the canvas size, photos, stickers,
\* text layers, drawings, frame source, frame opacity, global photo scale and filter
\* as of the last edit, never those of an earlier, cancelled schedule.
C5_PostedRequestIsCurrent ==
    [][ Len(toWorker') > Len(toWorker)
        => toWorker'[Len(toWorker')] = CompositeRequest(CurrentDeps, canvasSize) ]_vars

\* C5, its case: a request is posted after an edit that followed an earlier RESULT.
C5_RequestAfterLaterEdit ==
    /\ Len(toWorker) = 1
    /\ finalCompositeImage # NoImage
    /\ toWorker[1].filter # ""

-----------------------------------------------------------------------------
(* Properties of the sync protocol *)

OperatorTakes == toOperator # << >> /\ toOperator' = Tail(toOperator)

\* C6: an inbound message that fails validation leaves Session, Settings, analytics and
\* guestLayoutId unchanged and causes nothing to be sent.
C6_InvalidMessageDropped ==
    [][ (OperatorTakes /\ FailsValidation(Head(toOperator)))
        => /\ UNCHANGED << session, settings, analytics, guestLayoutId, toGuest >>
           /\ obs'.sent = 0 ]_vars

\* C6, its case: the operator, with a session running, took such a message.
C6_InvalidMessageTaken == obs.handled = "invalid" /\ session.isActive

\* C7: an action whose field has not the expected shape (frame source, email, filter,
\* drawing path) is dropped: Session and Settings are unchanged.
C7_MisshapenActionDropped ==
    [][ (OperatorTakes /\ FailsShape(Head(toOperator)))
        => UNCHANGED << session, settings >> ]_vars

\* C8: the guest's mirrored state is the payload of the last SET_STATE it took (the
\* initial state before any): SET_STATE replaces it whole, GET_STATE and GUEST_ACTION
\* leave it unchanged.
C8_GuestMirrorsLastSetState == guestState = obs.lastSet

\* C8, its case: the guest, showing the review, took a GUEST_ACTION of another context.
C8_GuestTookForeignAction ==
    obs.guestGot = "GUEST_ACTION" /\ Mode(guestState) = "REVIEW"

\* C9, as stated: every GUEST_ACTION that is validated and applied, of whichever of
\* the eight types, is followed by a SET_STATE broadcast.
C9_EveryAppliedActionBroadcast == obs.applied # "none" => obs.sent >= 1

AlwaysBroadcast ==
    { "GUEST_START", "GUEST_SELECT_LAYOUT", "GUEST_SELECT_FRAME", "GUEST_ADD_DRAWING",
      "GUEST_SET_FILTER" }

\* C9, amended: a validated action of type start, select-layout, select-frame,
\* add-drawing or set-filter is followed by a SET_STATE broadcast; a submit-email
\* action is applied without one.
C9_BroadcastPerActionType ==
    /\ obs.applied \in AlwaysBroadcast => obs.sent >= 1
    /\ obs.applied = "GUEST_EMAIL" => obs.sent = 0

\* C9, its case: a drawing of the guest was applied and the new state is on its way.
C9_DrawingBroadcast ==
    /\ obs.applied = "GUEST_ADD_DRAWING" /\ obs.sent = 1
    /\ guestWindow /\ toGuest # << >>

\* C10: two throttled rebroadcasts in a row are at least 300 ms apart, and none is
\* sent without a guest layout selected or without a guest window open.
C10_ThrottledBroadcasts ==
    obs.gap >= BROADCAST_INTERVAL_MS /\ obs.broadcastOk

\* C10, its case: a second throttled rebroadcast was sent.
C10_SecondBroadcast == obs.broadcasts >= 2


-----------------------------------------------------------------------------
(* Properties of the guest window's intents *)

\* The action types the sync channel's GuestAction is specified to have.
EnumeratedActionTypes ==
    { "GUEST_START", "GUEST_SELECT_LAYOUT", "GUEST_SELECT_FRAME", "GUEST_EMAIL",
      "GUEST_PRINT", "GUEST_ADD_DRAWING", "GUEST_SET_FILTER", "GUEST_PAYMENT_COMPLETE" }

\* C11: every intent the guest window emits is a GUEST_ACTION on the sync channel
\* whose type is one of the eight enumerated types: nothing leaves the guest window
\* by another route, and nothing of another type.  (Violated: the review screen's
\* sticker, text, undo and retake buttons post GUEST_ADD_STICKER, GUEST_ADD_TEXT,
\* GUEST_UNDO and GUEST_RETAKE to window.parent.)
C11_GuestEmitsOnlyEnumerated ==
    /\ toParent = << >>
    /\ \A i \in 1 .. Len(toOperator) :
          /\ MsgType(toOperator[i]) = "GUEST_ACTION"
          /\ MsgType(Get(toOperator[i], "payload")) \in EnumeratedActionTypes


-----------------------------------------------------------------------------
(* Properties of the selection *)

\* The array of the selected layer type.
SelectedArray ==
    CASE selectedLayerType = "photo" -> session.photos
      [] selectedLayerType = "sticker" -> session.stickers
      [] selectedLayerType = "text" -> session.textLayers
      [] OTHER -> << >>

\* C12: after every operation that changes the session's layer arrays the selection
\* index is -1 or smaller than the length of the array of the selected layer type.
\* (Violated: undo, redo and guest start replace the session and leave the
\* selection as it was.)
C12_SelectionInRange ==
    selectedLayerIndex = -1 \/ selectedLayerIndex < Len(SelectedArray)

-----------------------------------------------------------------------------
(* CanvasEditor gestures *)

GestureModes == { "moving_layer", "rotating", "scaling_layer", "crop_panning" }

\* C13: the mode becomes moving, rotating, scaling, crop-panning or drawing only from
\* idle: in a step that starts while a gesture is in progress the mode stays or
\* becomes idle, and while it stays the anchor and the snapshot are not replaced.
C13_GestureStartsOnlyFromIdle ==
    [][ interaction.mode # "idle" =>
          /\ interaction'.mode \in { "idle", interaction.mode }
          /\ interaction'.mode # "idle" =>
                /\ interaction'.startX = interaction.startX
                /\ interaction'.startY = interaction.startY
                /\ interaction'.startVal = interaction.startVal ]_vars

\* C14: whenever the mode is moving, rotating, scaling or crop-panning a snapshot is
\* present and it is a copy of the hit layer as the session held it at the pointer-down
\* that started the gesture.
C14_SnapshotIsLayerAtPointerDown ==
    interaction.mode \in GestureModes =>
        /\ interaction.startVal # NoSnapshot
        /\ interaction.startVal = obs.downLayer

\* C15: a pointer-up or pointer-leave leaves the mode idle whatever the mode was,
\* changes no layer of the session, and records nothing: the history and the messages
\* to the guest window stay as they were.
C15_PointerUpOnlyEndsGesture ==
    [][ obs'.event = "up" =>
          /\ interaction'.mode = "idle"
          /\ session' = session
          /\ history' = history
          /\ historyIndex' = historyIndex
          /\ toGuest' = toGuest ]_vars

\* A gesture that moved its layer was ended by a pointer-up.
C15_ReleasedAfterMove ==
    /\ obs.event = "up"
    /\ obs.moves > 0
    /\ interaction.mode = "idle"
    /\ interaction.startVal # NoSnapshot

\* The positions (from 1) of the layers of one kind that are under the pointer: the
\* pointer is on the layer's body, or the layer is the selected one and the pointer
\* is on one of its handles.
UnderPointer(layers, layerType, selType, selIndex, mouse, size, scale) ==
    { i \in 1 .. Len(KindArray(layers, layerType)) :
        LayerHit(layerType, layers, i, mouse, selType, selIndex, size, scale) # "none" }

Highest(S) == CHOOSE i \in S : \A j \in S : j <= i

\* The front-most layer under the pointer as << kind, index >>: text over sticker over
\* photo, within a kind the highest index; << "photo", -1 >> when there is none.
FrontMost(layers, selType, selIndex, mouse, size, scale) ==
    LET under(layerType) ==
            UnderPointer(layers, layerType, selType, selIndex, mouse, size, scale)
    IN  IF under("text") # {} THEN << "text", Highest(under("text")) - 1 >>
        ELSE IF under("sticker") # {} THEN << "sticker", Highest(under("sticker")) - 1 >>
        ELSE IF under("photo") # {} THEN << "photo", Highest(under("photo")) - 1 >>
        ELSE << "photo", -1 >>

\* C16: a pointer-down (taken here from idle) selects the front-most layer under the
\* pointer, and which layer that is depends only on the session's layer arrays, the
\* selection before the pointer-down and the pointer position.
C16_PointerDownSelectsFrontMost ==
    [][ obs'.event = "down" /\ interaction.mode = "idle" =>
          << selectedLayerType', selectedLayerIndex' >> =
              FrontMost(Layers(session), selectedLayerType, selectedLayerIndex,
                        obs'.pointer, canvasSize, globalPhotoScale) ]_vars

\* C17: a pointer-down outside drawing mode (taken here from idle) with no layer body
\* and no handle of the selected layer under the pointer sets the selection index
\* to -1, leaves the mode idle and changes no layer.
C17_MissClearsSelection ==
    [][ /\ obs'.event = "down"
        /\ interaction.mode = "idle"
        /\ ~IsDrawingMode
        /\ FrontMost(Layers(session), selectedLayerType, selectedLayerIndex,
                     obs'.pointer, canvasSize, globalPhotoScale) = << "photo", -1 >>
        => /\ selectedLayerIndex' = -1
           /\ interaction'.mode = "idle"
           /\ session' = session ]_vars

\* C18: a pointer-down starts a rotation or a scaling only on the layer that was
\* already selected (the selection is the same before and after, and is a layer);
\* scaling starts only on a sticker or a text layer, never on a photo; a pointer-down
\* that changes the selection starts a move, a crop-pan or nothing.
C18_HandlesOnlyOfSelectedLayer ==
    [][ obs'.event = "down" =>
          /\ interaction'.mode \in { "rotating", "scaling_layer" } =>
                /\ selectedLayerIndex >= 0
                /\ selectedLayerType' = selectedLayerType
                /\ selectedLayerIndex' = selectedLayerIndex
          /\ interaction'.mode = "scaling_layer" =>
                selectedLayerType' \in { "sticker", "text" }
          /\ << selectedLayerType', selectedLayerIndex' >>
                  # << selectedLayerType, selectedLayerIndex >> =>
                interaction'.mode \in { "moving_layer", "crop_panning", "idle" } ]_vars

\* A scaling started on the selected text layer at a point that is on its scale handle
\* and on its body: the handle test came first.
C18_ScaleHandleBeforeBody ==
    /\ obs.event = "down"
    /\ interaction.mode = "scaling_layer"
    /\ selectedLayerType = "text"
    /\ TextHit(interaction.startVal, obs.pointer, FALSE, canvasSize) = "move"

LayerKinds == { "photo", "sticker", "text" }

\* Sessions s and t differ at most in the layer of the given kind at the given index.
OnlyLayerChanged(s, t, layerType, index) ==
    /\ \A k \in LayerKinds :
          /\ Len(KindArray(Layers(t), k)) = Len(KindArray(Layers(s), k))
          /\ \A i \in 1 .. Len(KindArray(Layers(s), k)) :
                (k # layerType \/ i # index + 1) =>
                    KindArray(Layers(t), k)[i] = KindArray(Layers(s), k)[i]
    /\ t.drawings = s.drawings
    /\ t.filter = s.filter

\* C19: a pointer-move in mode moving or scaling changes a sticker or a text layer, one
\* in mode crop-panning changes a photo, and a pointer-move of a gesture changes only
\* the one layer, by kind and index, whose snapshot the pointer-down took.
C19_GestureChangesOnlyItsLayer ==
    [][ obs'.event = "move" =>
          /\ interaction.mode \in { "moving_layer", "scaling_layer" } =>
                obs.downKind \in { "sticker", "text" }
          /\ interaction.mode = "crop_panning" => obs.downKind = "photo"
          /\ obs.downKind = selectedLayerType /\ obs.downIndex = selectedLayerIndex
          /\ OnlyLayerChanged(session, session', obs.downKind, obs.downIndex) ]_vars

\* C20: after every pointer-move of a move gesture the layer the gesture began on is
\* at its position of the pointer-down plus (pointer - anchor) / canvas size, whatever
\* positions the pointer visited before (so back at the anchor it is back at that
\* position), and its other fields, size and rotation among them, are as they were.
C20_MoveFollowsPointerFromGestureStart ==
    [][ obs'.event = "move" /\ interaction.mode = "moving_layer" =>
          LET start == obs.downLayer
              after == LayerAt(session', obs.downKind, obs.downIndex)
              mouse == obs'.pointer
          IN  /\ after.x = start.x + ((mouse.x - interaction.startX) * Unit)
                                         \div canvasSize[1]
              /\ after.y = start.y + ((mouse.y - interaction.startY) * Unit)
                                         \div canvasSize[2]
              /\ \A k \in DOMAIN start \ { "x", "y" } : after[k] = start[k] ]_vars

\* C21: after every pointer-move of a crop-pan the photo the gesture began on has its
\* crop offset of the pointer-down minus the pointer's displacement from the anchor,
\* rotated by minus the photo's rotation and divided by globalPhotoScale x crop.scale;
\* crop.scale is as it was, and at scale 1 the offset changes by as much as the
\* pointer moved, whatever quarter turn the photo is rotated by.
C21_CropPanFollowsPointer ==
    [][ obs'.event = "move" /\ interaction.mode = "crop_panning" =>
          LET start == obs.downLayer
              after == LayerAt(session', "photo", obs.downIndex)
              deg == start.transform.rotation
              dx == obs'.pointer.x - interaction.startX
              dy == obs'.pointer.y - interaction.startY
              zoom == globalPhotoScale * start.crop.scale
          IN  /\ after.crop.x = start.crop.x - (dx * Cos(deg) + dy * Sin(deg)) \div zoom
              /\ after.crop.y = start.crop.y - (dy * Cos(deg) - dx * Sin(deg)) \div zoom
              /\ after.crop.scale = start.crop.scale
              /\ zoom = 1 => Sq(after.crop.x - start.crop.x)
                                + Sq(after.crop.y - start.crop.y) = Sq(dx) + Sq(dy) ]_vars

C23_ScaleFollowsPointerDistance ==
    [][ obs'.event = "move" /\ interaction.mode = "scaling_layer" =>
          LET start == obs.downLayer
              after == LayerAt(session', obs.downKind, obs.downIndex)
              c == Centre(start, obs.downKind, canvasSize)
              currentDist == Hypot(obs'.pointer.x - c.x, obs'.pointer.y - c.y)
              startDist == IF interaction.startDist = 0 THEN 10 ELSE interaction.startDist
          IN  /\ after.x = start.x /\ after.y = start.y
              /\ after.rotation = start.rotation
              /\ obs.downKind = "sticker" =>
                    /\ after.width = Max(MinSize, Times(start.width, currentDist, startDist))
                    /\ after.height * start.width = after.width * start.height
                    /\ after.src = start.src
              /\ obs.downKind = "text" =>
                    /\ after.fontSize
                         = Max(MinSize, Times(start.fontSize, currentDist, startDist))
                    /\ after.text = start.text ]_vars

InvalidSelection ==
    \/ selectedLayerIndex < 0
    \/ selectedLayerIndex >= Len(KindArray(Layers(session), selectedLayerType))

\* C27: while the selection index is not a valid index into the array of the
\* selected type, the editor behaves as with no selection: a pointer-move
\* (the only source of layer updates) neither changes nor extends any layer
\* array, a pointer-down starts no handle gesture (rotating, scaling), and a
\* delete removes no layer.
C27_InvalidSelectionIsNoSelection ==
    [][ InvalidSelection =>
          /\ obs'.event = "move" => Layers(session') = Layers(session)
          /\ obs'.event = "down" =>
                 interaction'.mode \notin { "rotating", "scaling_layer" }
          /\ ( /\ selectedLayerIndex >= 0
               /\ selectedLayerIndex' = -1
               /\ obs'.event = "none" ) => Layers(session') = Layers(session)
      ]_vars

\* A step that records a snapshot: the history changes and the step is not the start
\* of a session (photos picked, hot folder used), which replaces the history.
SnapshotRecorded ==
    /\ history' # history
    /\ ~(appStep = "PHOTO_UPLOAD" /\ appStep' = "FINALIZE_AND_EXPORT")

\* C28: recording a snapshot while the cursor is not at the last snapshot discards
\* every snapshot after the cursor, appends the new session and moves the cursor
\* onto it (so no redo is possible); the snapshots up to the old cursor are unchanged.
C28_PushTruncatesFuture ==
    [][ historyIndex < Len(history) - 1 /\ SnapshotRecorded =>
          /\ Len(history') = historyIndex + 2
          /\ historyIndex' = Len(history') - 1
          /\ history'[Len(history')] = session'
          /\ SubSeq(history', 1, historyIndex + 1) = SubSeq(history, 1, historyIndex + 1)
      ]_vars

\* C28 witness: a hot-folder import has just been recorded after an undo, and the
\* snapshot the undo left behind is gone.
C28_ImportRecordedAfterUndo ==
    /\ obs.cut > 0
    /\ historyIndex = Len(history) - 1
    /\ Len(history) = 2
    /\ history[1].photos = << >>
    /\ session.photos # << >>
    /\ session.stickers = << >>
    /\ session = history[2]

\* The step published the session to an open guest window.
SessionBroadcast ==
    guestWindow =>
        \E i \in DOMAIN toGuest' :
            /\ i > Len(toGuest)
            /\ toGuest'[i] = SetState(ReviewState(session', settings'))

\* The step set the cursor to `index`, inside the history, kept the history, set the
\* session to the snapshot there and broadcast it.
CursorMovedTo(index) ==
    /\ historyIndex' = index
    /\ index >= 0 /\ index <= Len(history) - 1
    /\ history' = history
    /\ session' = history[index + 1]
    /\ SessionBroadcast

\* C29: undo and redo move the cursor by exactly one within [0, length - 1], set the
\* session to the snapshot at the cursor and broadcast it to the guest; undo at the
\* first snapshot and redo at the last change nothing; a redo right after an undo
\* that moved the cursor restores the session that was current before the undo.
C29_UndoRedoMoveCursorByOne ==
    [][ /\ obs'.command = "undo" =>
              IF historyIndex > 0 THEN CursorMovedTo(historyIndex - 1)
              ELSE UNCHANGED << session, history, historyIndex, toGuest >>
        /\ obs'.command = "redo" =>
              IF historyIndex < Len(history) - 1 THEN CursorMovedTo(historyIndex + 1)
              ELSE UNCHANGED << session, history, historyIndex, toGuest >>
        /\ ( /\ obs.command = "undo"
             /\ obs.before # session
             /\ obs'.command = "redo" ) => session' = obs.before
      ]_vars

\* C30: whenever the history is non-empty the session equals the snapshot at the
\* cursor, after any sequence of edits, undo, redo, guest actions, resets and
\* hot-folder imports.
C30_SessionIsSnapshotAtCursor ==
    history # << >> =>
        /\ historyIndex >= 0 /\ historyIndex <= Len(history) - 1
        /\ session = history[historyIndex + 1]

\* C31: once a pointer-move of a gesture has been applied to the session, the layers
\* the editor draws and hit-tests (its transient copies) equal the session's layers,
\* and they equal them again once the gesture has ended.
C31_PreviewFollowsSession ==
    [][ /\ ( obs'.event = "move" /\ Layers(session') # Layers(session) ) =>
              transient' = Layers(session')
        /\ obs'.event = "up" => transient' = Layers(session')
      ]_vars

\* The message whose event the step handles is a GUEST_ACTION of the given type that
\* passes validation and has the shape the dispatch expects.
Applies(type) ==
    /\ toOperator # << >>
    /\ toOperator' # toOperator
    /\ obs'.applied = type
    /\ obs'.handled = "other"

\* C32: every valid GUEST_ADD_DRAWING and GUEST_SET_FILTER delivered to the operator
\* takes effect on top of the latest session: the drawing is appended to the
\* session's drawings, the filter replaces the session's filter and nothing else, and
\* no waiting message is dropped, also when messages arrive before the operator has
\* rendered or while the listener is re-subscribed.
C32_GuestEditsApplyToLatestSession ==
    [][ /\ Applies("GUEST_ADD_DRAWING") =>
              session' = [ session EXCEPT !.drawings =
                             Append(@, Get(Get(Head(toOperator), "payload"), "drawing")) ]
        /\ Applies("GUEST_SET_FILTER") =>
              session' = [ session EXCEPT !.filter =
                             Raw(Get(Get(Head(toOperator), "payload"), "filter")) ]
        /\ Len(toOperator') >= Len(toOperator) - 1
      ]_vars

\* C33: in the layout editor, after an undo or a redo and until the next edit, the
\* placeholders last committed to the parent are the history entry the undo or redo
\* moved the cursor to, also when a debounced save was scheduled at that moment; and
\* canUndo is true exactly above the first entry, canRedo exactly below the last.
C33_UndoCommitsEntryAtCursor ==
    /\ layoutEditor.command \in { "undo", "redo" } =>
           layoutEditor.committed = layoutEditor.target
    /\ layoutEditor.isEditingLayout =>
           /\ layoutEditor.canUndo <=> layoutEditor.historyIndex > 0
           /\ layoutEditor.canRedo <=>
                  layoutEditor.historyIndex < Len(layoutEditor.history) - 1

\* The organizer edited the layout that is active on the open guest screen.
ActiveLayoutEdited ==
    /\ guestWindow
    /\ guestLayoutId \notin FALSY
    /\ obs.editedLayout = guestLayoutId

\* The last state the guest window received carries the operator's placeholders,
\* frame and aspect ratio.
GuestHasCurrentLayout ==
    /\ "placeholders" \in DOMAIN obs.lastSet
    /\ obs.lastSet.placeholders = settings.placeholders
    /\ obs.lastSet.frameSrc = settings.frameSrc
    /\ obs.lastSet.aspectRatio = settings.aspectRatio

\* C34: once the organizer has edited the layout active on the guest screen, the
\* guest eventually receives a state with the operator's current placeholders, frame
\* and aspect ratio (or the window is closed or shows another layout): no edit is
\* lost to the throttle.
C34_LastEditReachesGuest ==
    ActiveLayoutEdited ~> (GuestHasCurrentLayout \/ ~ActiveLayoutEdited)

\* The step counts a print job.
PrintCounted == analytics'.totalPrints > analytics.totalPrints

\* C35: with vending enabled a print is counted only for a paid session or by the
\* GUEST_PAYMENT_COMPLETE being applied; a GUEST_PRINT for an unpaid session counts
\* nothing and sends the guest to PAYMENT; each applied GUEST_PAYMENT_COMPLETE marks
\* the session paid and adds pricePerPrint to the revenue; a new session is unpaid.
C35_NoPrintWithoutPayment ==
    [][ /\ settings.pro.enableVending /\ PrintCounted =>
               session.isPaid \/ Applies("GUEST_PAYMENT_COMPLETE")
        /\ Applies("GUEST_PRINT") /\ settings.pro.enableVending /\ ~session.isPaid =>
               /\ ~PrintCounted
               /\ toGuest' # << >>
               /\ Get(toGuest'[Len(toGuest')], "payload").mode = "PAYMENT"
        /\ Applies("GUEST_PAYMENT_COMPLETE") =>
               /\ session'.isPaid
               /\ analytics'.totalRevenue =
                      analytics.totalRevenue + settings.pro.pricePerPrint
        /\ session'.photos = << >> /\ session.photos # << >> => ~session'.isPaid ]_vars

\* The layout a GUEST_SELECT_LAYOUT at the head of the channel names, that layout
\* among the operator's, the visible frames that support it, and the states the
\* operator sends to the guest in the step.
SelectedLayout == Raw(Get(Get(Head(toOperator), "payload"), "layout"))
SelectedPreset == FindLayout(settings.layoutOptions, SelectedLayout)
SupportingFrames ==
    SelectSeq(settings.availableFrames,
              LAMBDA f : f.isVisible /\ SelectedLayout \in f.supportedLayouts)
SentInStep == SubSeq(toGuest', Len(toGuest) + 1, Len(toGuest'))
SentModes(mode) == { i \in DOMAIN SentInStep : Get(SentInStep[i], "payload").mode = mode }

\* C36: an applied GUEST_SELECT_LAYOUT of an existing layout other than 'custom'
\* makes the operator's placeholders that layout's, and every live-preview state sent
\* to the guest in the step carries them; FRAME_SELECTION is sent exactly when a
\* visible frame supports the layout; 'custom' leaves the placeholders as they are.
C36_SelectedLayoutReachesGuest ==
    [][ Applies("GUEST_SELECT_LAYOUT") =>
          /\ SelectedLayout # "custom" /\ SelectedPreset # << >> =>
                 /\ settings'.placeholders = SelectedPreset[1].placeholders
                 /\ \A i \in SentModes("LIVE_PREVIEW") :
                        Get(SentInStep[i], "payload").placeholders =
                            SelectedPreset[1].placeholders
          /\ guestWindow =>
                 (SentModes("FRAME_SELECTION") # {} <=> SupportingFrames # << >>)
          /\ SelectedLayout = "custom" =>
                 settings'.placeholders = settings.placeholders ]_vars

\* A hot-folder delivery adds photos to the session of the finalize step.
PhotosImported ==
    /\ appStep = "FINALIZE_AND_EXPORT"
    /\ appStep' = appStep
    /\ obs'.command = "none"
    /\ Len(session'.photos) > Len(session.photos)

\* C37: a hot-folder delivery puts its photos on the free placeholders in order:
\* the session never has more photos than placeholders, the photo at position i is
\* on placeholder i, and no two photos are on the same placeholder.
C37_ImportsFillFreePlaceholders ==
    [][ PhotosImported =>
          /\ Len(session'.photos) <= Len(settings.placeholders)
          /\ \A i \in Len(session.photos) + 1 .. Len(session'.photos) :
                 /\ i <= Len(settings.placeholders)
                 /\ session'.photos[i].transform =
                        CreatePhotoFromPlaceholder(session'.photos[i].src,
                                                   settings.placeholders[i]).transform
          /\ \A i, j \in DOMAIN session'.photos :
                 i # j => session'.photos[i].transform # session'.photos[j].transform ]_vars

\* C38: the collected e-mail addresses hold no address twice, and none that is empty
\* or longer than MAX_EMAIL_LENGTH characters.
C38_EmailsCollectedOnce ==
    /\ \A i, j \in DOMAIN analytics.emailsCollected :
           i # j => analytics.emailsCollected[i] # analytics.emailsCollected[j]
    /\ \A i \in DOMAIN analytics.emailsCollected :
           /\ analytics.emailsCollected[i] # ""
           /\ StrLength(analytics.emailsCollected[i]) <= MAX_EMAIL_LENGTH

\* C39: the kiosk becomes locked only with kiosk mode on, an auto-lock timer set, the
\* settings panel closed and more than the timer since the last activity; it becomes
\* unlocked only by a click on Unlock with the entered PIN equal to the kiosk PIN, a
\* click with another PIN leaving it locked; and a shortcut pressed while it is
\* locked changes nothing of the composition, its history or the file counter.
C39_KioskLocksAndUnlocks ==
    [][ /\ ~kiosk.isKioskLocked /\ kiosk'.isKioskLocked =>
               /\ settings.kioskMode
               /\ settings.autoResetTimer > 0
               /\ ~kiosk.isSettingsOpen
               /\ now' - kiosk.lastActivity > settings.autoResetTimer * 1000
        /\ kiosk.isKioskLocked /\ ~kiosk'.isKioskLocked =>
               /\ kiosk'.key = "unlock"
               /\ kiosk.unlockAttemptPin = settings.kioskPin
        /\ kiosk.isKioskLocked /\ kiosk'.key = "unlock"
              /\ kiosk.unlockAttemptPin # settings.kioskPin => kiosk'.isKioskLocked
        /\ kiosk.isKioskLocked /\ kiosk'.key \in ShortcutKeys =>
               /\ UNCHANGED << appStep, session, settings, history, historyIndex,
                               selectedLayerType, selectedLayerIndex,
                               finalCompositeImage >>
               /\ kiosk'.fileCounter = kiosk.fileCounter ]_vars

\* A shortcut was pressed while the kiosk was locked, with a snapshot to go back to
\* and a PIN configured.
C39_ShortcutWhileLocked ==
    /\ kiosk.isKioskLocked
    /\ kiosk.key \in ShortcutKeys
    /\ historyIndex > 0
    /\ settings.kioskPin # ""

\* C40: whenever the kiosk is locked there is a PIN the operator can enter, with
\* which the Unlock button is enabled and attemptUnlock unlocks.
C40_LockedKioskCanBeUnlocked ==
    kiosk.isKioskLocked =>
        \E pin \in PinEntries :
            /\ pin # ""
            /\ ~AttemptUnlock([ kiosk EXCEPT !.unlockAttemptPin = pin ],
                              settings, now).isKioskLocked

============================================================================
